---- MODULE Spec2Model ----
(***************************************************************************)
(* Model of the 455-355-7357-88 test framework.                            *)
(*                                                                         *)
(* This part models class Test (Test.h): the fields of one test object and *)
(* the lifecycle executed by Test::run().  run() is split at every call of *)
(* an overridable hook (initialize, preSetUp, setUp, testMethod, subtest   *)
(* callable, tearDown, postTearDown, finalize), because a hook is user     *)
(* code that observes and changes the object in the middle of run().       *)
(* pc is the position of run(); i and bSkipAllSubTests are its locals.     *)
(*                                                                         *)
(* A hook body is user code.  Its behaviour is drawn from small sets: the  *)
(* value it returns (setUp, testMethod, subtest callable) and one optional *)
(* effect on the object through the public API: a failing assertTrue()     *)
(* or, in a test body, an addToInfoMessages() call.  Subtests are          *)
(* registered where the class documentation says: in the constructor of    *)
(* the derived class and in initialize().                                  *)
(*                                                                         *)
(* History variables (not fields of the program): runs, calls,             *)
(* nRegistered, prevRun, and the fields run/at of a message.               *)
(*                                                                         *)
(* The second part models the global timing store and the scoped timers    *)
(* (ScopeBenchmarker.h): store is the static map of getAllData(), timers   *)
(* the ScopeBenchmarker objects alive.  The duration a timer measures is   *)
(* drawn from a small set when the timer is destroyed.  StoreSpec is the   *)
(* store used by arbitrary single-threaded code.                           *)
(*                                                                         *)
(* The third part models class Benchmark (Benchmarks.h), whose run()       *)
(* clears the store before every setUp() and reports and clears it after   *)
(* every tearDown(); its hook bodies use the scoped timers.  BenchSpec is   *)
(* one Benchmark object together with the store.                           *)
(*                                                                         *)
(* History variables of these parts: hist, lastOp, phaseOps, opsLeft, and  *)
(* the stale count of timers.                                              *)
(***************************************************************************)
EXTENDS Integers, Sequences, FiniteSets, TLC

VARIABLES
    bTestRan,            \* Test::bTestRan
    sErrorMessages,      \* Test::sErrorMessages
    sInfoMessages,       \* Test::sInfoMessages
    tSubTests,           \* Test::tSubTests, sequence of <<func, name>>
    iCurrentSubTest,     \* Test::iCurrentSubTest (0-based, as in the code)
    bWeAreInSubTest,     \* Test::bWeAreInSubTest
    nSucceededSubTests,  \* Test::nSucceededSubTests
    pc,                  \* position of run(): which hook is called next
    i,                   \* loop variable of the subtest loop of run()
    bSkipAllSubTests,    \* local of run()
    retVal,              \* value returned by the last run()
    initRegs,            \* the addSubTest() calls the class makes in initialize()
    runs,                \* history: number of run() calls started
    calls,               \* history: hook invocations of the current run
    nRegistered,         \* history: addSubTest() calls with a non-null callable
    prevRun,             \* history: the run before, see Snapshot
    store,               \* the static map behind getAllData(): hash -> BmData
    timers,              \* ScopeBenchmarker objects alive, counted per m_nameHash
    hist,                \* history: per hash, what happened since the last clear()/resetAll()
    lastOp,              \* history: the last operation on the store
    phaseOps,            \* history: store operations since the last initBenchmarkers()
    opsLeft,             \* history: store operations the behaviour may still make
    sTestName,           \* Test::sTestName
    sTestFile,           \* Test::sTestFile, a sequence of characters
    ctorArgs,            \* history: the arguments the constructor was called with
    thread               \* per thread of a program whose threads share the store:
                         \* where it is in its timer, and its locals

storeVars == <<store, timers, hist, lastOp, phaseOps, opsLeft, thread>>

nameVars == <<sTestName, sTestFile, ctorArgs>>

testVars == <<bTestRan, sErrorMessages, sInfoMessages, tSubTests, iCurrentSubTest,
              bWeAreInSubTest, nSucceededSubTests, pc, i, bSkipAllSubTests, retVal,
              initRegs, runs, calls, nRegistered, prevRun, nameVars>>

vars == <<bTestRan, sErrorMessages, sInfoMessages, tSubTests, iCurrentSubTest,
          bWeAreInSubTest, nSucceededSubTests, pc, i, bSkipAllSubTests, retVal,
          initRegs, runs, calls, nRegistered, prevRun, store, timers, hist,
          lastOp, phaseOps, opsLeft, sTestName, sTestFile, ctorArgs, thread>>

(***************************************************************************)
(* Bounds of the model.                                                    *)
(***************************************************************************)
MaxRuns == 2          \* run() calls per behaviour
MaxSubTests == 2      \* registered subtests of the object
MaxHookMsgs == 1      \* messages the hook bodies append in one run
MaxOutsideMsgs == 1   \* messages appended by the owner between two runs
MaxStoreOps == 6      \* store operations per behaviour of StoreSpec
MaxBenchOps == 3      \* store operations per behaviour of BenchSpec
MaxBenchRuns == 1     \* run() calls per behaviour of BenchSpec
MaxSample == 2        \* largest duration a scoped timer measures
MaxPathLen == 3       \* characters of the testFile argument of the constructor
MaxThreads == 2       \* threads of ThreadSpec, each with one scoped timer
MaxThreadClears == 1  \* clear() calls per behaviour of ThreadSpec
SIZE_MAX == 15        \* stand-in for the largest size_t (std::string::npos)
LLONG_MAX == 15       \* stand-in for the largest long long; no counter of the
                      \* model gets near it

(***************************************************************************)
(* Values.                                                                 *)
(***************************************************************************)
NULL == "nullptr"

\* the characters of a path: two letters and the two separators
Chars == {"d", "t", "\\", "/"}

\* the strings of at most n characters
RECURSIVE StringsUpTo(_)
StringsUpTo(n) ==
    IF n = 0 THEN {<<>>}
    ELSE LET shorter == StringsUpTo(n - 1)
         IN  shorter \cup {Append(str, ch) : str \in shorter, ch \in Chars}

\* the testFile and testName arguments a constructor call may pass
Paths == StringsUpTo(MaxPathLen)
TestNames == {"", "ATest"}

\* the arguments the objects of the other parts are constructed with:
\* a file in a directory, no name
DefaultArgs == [testFile |-> <<"d", "\\", "t">>, testName |-> ""]

\* The addSubTest() argument lists a class passes in its constructor and in
\* its initialize(): <<subTestName, subTestFunc>> in call order.
CtorRegLists ==
    { <<>>,
      << <<"testA", "testA">> >>,
      << <<"testA", "testA">>, <<"testB", "testB">> >> }

InitRegLists ==
    { <<>>,
      << <<"testA", "testA">> >>,
      << <<"testNull", NULL>>, <<"testB", "testB">> >> }

\* what a hook body does to the object: nothing, a failing assertTrue(), or
\* (test bodies only) an addToInfoMessages() call
HookEffects == {"none", "assertFail"}
BodyEffects == {"none", "assertFail", "info"}

\* A message: kind and name stand for its text; run and at are history
\* tags (the run and the phase that appended it; at = -1 is the main phase
\* or outside of run()).
Msg(kind, name, at) == [kind |-> kind, name |-> name, run |-> runs, at |-> at]

Text(m) == <<m.kind, m.name>>

Texts(ms) == [k \in 1..Len(ms) |-> Text(ms[k])]

(***************************************************************************)
(* Pure parts of class Test.                                               *)
(***************************************************************************)
\* variant: the message is put in front of the others
addToErrorMessages_Prepends(errs, m) == <<m>> \o errs

\* Test::addToErrorMessages
addToErrorMessages(errs, m) == Append(errs, m)

\* Test::addToInfoMessages
addToInfoMessages(infos, m) == Append(infos, m)

\* variant: a failed assertion is reported twice
assertTrue_Twice(errs, statement, m) ==
    IF ~statement THEN addToErrorMessages(addToErrorMessages(errs, m), m) ELSE errs

\* Test::assertTrue, its effect on the error messages (it returns statement)
assertTrue(errs, statement, m) ==
    IF ~statement THEN addToErrorMessages(errs, m) ELSE errs

\* Test::assertTrue as a call on an object: the value returned and the
\* object left behind
Test_assertTrue(this, statement, m) ==
    [ret |-> statement,
     this |-> [this EXCEPT !.sErrorMessages = assertTrue(@, statement, m)]]

\* Test::assertFalse
assertFalse(this, statement, m) == Test_assertTrue(this, ~statement, m)

\* Test::assertEquals
assertEquals(this, expected, checked, m) == Test_assertTrue(this, expected = checked, m)

\* Test::assertNotEquals
assertNotEquals(this, comparedTo, checked, m) == Test_assertTrue(this, comparedTo # checked, m)

\* variant: addSubTest() registers a null callable like any other
addSubTest_TakesNull(subs, subTestName, subTestFunc) ==
    Append(subs, <<subTestFunc, subTestName>>)

\* Test::addSubTest
addSubTest(subs, subTestName, subTestFunc) ==
    IF subTestFunc = NULL THEN subs
    ELSE Append(subs, <<subTestFunc, subTestName>>)

\* the addSubTest() calls of regs, in order
RECURSIVE addSubTests(_, _)
addSubTests(subs, regs) ==
    IF regs = <<>> THEN subs
    ELSE addSubTests(addSubTest(subs, Head(regs)[1], Head(regs)[2]), Tail(regs))

\* Test::addSubTest as a call on an object: the object left behind
Test_addSubTest(this, subTestName, subTestFunc) ==
    [this EXCEPT !.tSubTests = addSubTest(@, subTestName, subTestFunc)]

\* number of calls in regs that pass a callable other than nullptr
NonNullCount(regs) == Cardinality({k \in 1..Len(regs) : regs[k][2] # NULL})

\* variant: the verdict forgets whether the case ever ran
isPassed_IgnoresRan == sErrorMessages = <<>>

\* Test::isPassed
isPassed == bTestRan /\ sErrorMessages = <<>>

\* Test::getSubTestCount
getSubTestCount == Len(tSubTests)

\* Test::isSubTestRunning
isSubTestRunning == bWeAreInSubTest

\* Test::getCurrentSubTestName, the ways a call can end.  The only check is
\* assert(iCurrentSubTest < tSubTests.size()), which a release build does
\* not have; tSubTests[iCurrentSubTest] with an index out of range is
\* undefined, and so is leaving the function without a return statement:
\* the caller gets the name the expression statement computed, or a
\* reference to anything, or the program crashes.
getCurrentSubTestName ==
    LET undefined == {[outcome |-> "returns", name |-> "garbage"],
                      [outcome |-> "crash", name |-> ""]}
    IN  IF iCurrentSubTest < Len(tSubTests)
        THEN {[outcome |-> "returns", name |-> tSubTests[iCurrentSubTest + 1][2]]}
             \cup undefined
        ELSE {[outcome |-> "assertion failed", name |-> ""]} \cup undefined

\* Test::getPassedSubTestCount
getPassedSubTestCount == nSucceededSubTests

\* std::string::npos
npos == SIZE_MAX

\* std::string::find_last_of(ch): the position, counted from 0, of the last
\* ch in str, or npos
find_last_of(str, ch) ==
    LET found == {k \in 1..Len(str) : str[k] = ch}
    IN  IF found = {} THEN npos
        ELSE (CHOOSE k \in found : \A l \in found : l <= k) - 1

\* std::string::substr(pos), for pos <= size()
substr(str, pos) == SubSeq(str, pos + 1, Len(str))

\* Test::getFilename: path.substr(path.find_last_of('\\') + 1); the sum is
\* a size_t, so npos + 1 is 0
getFilename(path) == substr(path, (find_last_of(path, "\\") + 1) % (SIZE_MAX + 1))

\* Test::Test(testFile, testName), the names it leaves in the object;
\* sTestFile stays the empty string it is constructed as when testFile is
\* empty
Test_ctor(testFile, testName) ==
    [ sTestName |-> IF testName = "" /\ testFile = <<>> THEN "Unnamed Test" ELSE testName,
      sTestFile |-> IF testFile # <<>> THEN getFilename(testFile) ELSE <<>> ]

\* Test::getName
getName == sTestName

\* Test::getFile
getFile == sTestFile

\* the object was constructed with the arguments args
ConstructedWith(args) ==
    /\ ctorArgs = args
    /\ sTestName = Test_ctor(args.testFile, args.testName).sTestName
    /\ sTestFile = Test_ctor(args.testFile, args.testName).sTestFile

\* Test::reset, the values it assigns
reset ==
    [ bTestRan |-> FALSE,
      sErrorMessages |-> <<>>,
      sInfoMessages |-> <<>>,
      iCurrentSubTest |-> 0,
      bWeAreInSubTest |-> FALSE,
      nSucceededSubTests |-> 0 ]

(***************************************************************************)
(* The timing store: ScopeBenchmarkerDataStore (ScopeBenchmarker.h).       *)
(***************************************************************************)
\* DurationType::period::den of std::chrono::milliseconds
period_den == 1000

\* labels the code under measurement uses
Names == {"a", "b"}

\* PFL::calcHash: the key of a label, taken to be free of collisions
calcHash(name) == <<"hash", name>>

Hashes == {calcHash(name) : name \in Names}

\* durations a timer can measure: steady_clock never runs backwards
Samples == 0..MaxSample

\* a default-constructed BmData
BmData ==
    [ m_name |-> "",
      m_durationsTotal |-> 0,
      m_durationsMin |-> LLONG_MAX,
      m_durationsMax |-> 0,
      m_iterations |-> 0,
      m_ratioDenominator |-> 0 ]

\* BmData::getAverageDuration compared with an integer x.  The average is
\* total / iterations; the comparison is exact (the rounding of float is
\* not modelled).
getAverageDuration_GE(bm, x) ==
    IF bm.m_iterations = 0 THEN 0 >= x
    ELSE bm.m_durationsTotal >= x * bm.m_iterations

getAverageDuration_LE(bm, x) ==
    IF bm.m_iterations = 0 THEN 0 <= x
    ELSE bm.m_durationsTotal <= x * bm.m_iterations

\* variant: reset() forgets to restore the minimum
BmData_reset_KeepsMin(bm) ==
    [bm EXCEPT !.m_durationsTotal = 0,
               !.m_durationsMax = 0,
               !.m_iterations = 0]

\* BmData::reset
BmData_reset(bm) ==
    [bm EXCEPT !.m_durationsTotal = 0,
               !.m_durationsMin = LLONG_MAX,
               !.m_durationsMax = 0,
               !.m_iterations = 0]

\* the map without entries
EmptyStore == [h \in {} |-> BmData]

\* ScopeBenchmarkerDataStore::getAllData
getAllData == store

\* variant: the lookup leaves only the record of hash in the map
getDataByNameHash_DropsOthers(st, hash) ==
    [h \in {hash} |-> IF hash \in DOMAIN st THEN st[hash] ELSE BmData]

\* variant: the record inserted for an unknown hash has minimum 0
getDataByNameHash_ZeroMin(st, hash) ==
    IF hash \in DOMAIN st THEN st
    ELSE [h \in DOMAIN st \cup {hash} |->
             IF h = hash THEN [BmData EXCEPT !.m_durationsMin = 0] ELSE st[h]]

\* ScopeBenchmarkerDataStore::getDataByNameHash, the map it leaves behind:
\* std::map::operator[] inserts a default BmData for an unknown key
getDataByNameHash(st, hash) ==
    IF hash \in DOMAIN st THEN st
    ELSE [h \in DOMAIN st \cup {hash} |-> IF h = hash THEN BmData ELSE st[h]]

\* ScopeBenchmarkerDataStore::getDataByName, the map it leaves behind
getDataByName(st, name) == getDataByNameHash(st, calcHash(name))

\* variant: resetAll() drops the records
resetAll_Erases(st) == EmptyStore

\* ScopeBenchmarkerDataStore::resetAll
resetAll(st) == [h \in DOMAIN st |-> BmData_reset(st[h])]

\* variant: clear() resets the records and keeps them
clear_KeepsRecords(st) == resetAll(st)

\* ScopeBenchmarkerDataStore::clear
clear(st) == EmptyStore

\* the least value of the counters (long long, two's complement)
LLONG_MIN == (0 - LLONG_MAX) - 1

\* the constructor once the label is known not to be empty: the ways it can
\* end, each with the exception thrown ("none": the object is constructed;
\* "assertion failed": assert() stopped the program) and the map left
\* behind.  m_iterations++ on LLONG_MAX is a signed overflow, which is
\* undefined: the counter wraps to LLONG_MIN and then a debug build stops
\* at the assert, a build that tests the wrapped value throws, and a build
\* that relies on the increment not overflowing (m_iterations <= 0 decided
\* on the value before the increment) goes on as if nothing had happened.
\* Without overflow a counter that is not positive after the increment stops
\* a debug build at the assert and makes a release build throw.
CountIteration(st, name) ==
    LET hash == calcHash(name)
        st1 == getDataByNameHash(st, hash)
        overflow == st1[hash].m_iterations = LLONG_MAX
        it == IF overflow THEN LLONG_MIN ELSE st1[hash].m_iterations + 1
        counted == [st1 EXCEPT ![hash].m_iterations = it]
        completed == [threw |-> "none",
                      store |-> [counted EXCEPT ![hash].m_name = name,
                                                ![hash].m_ratioDenominator = period_den]]
        failed == {[threw |-> "assertion failed", store |-> counted],
                   [threw |-> "m_iterations overflew", store |-> counted]}
    IN  IF overflow THEN failed \cup {completed}
        ELSE IF it <= 0 THEN failed
        ELSE {completed}

\* variant: the constructor does not count the iteration
ScopeBenchmarker_ctor_NoCount(st, name) ==
    IF name = ""
    THEN {[threw |-> "name cannot be empty", store |-> st]}
    ELSE {[threw |-> "none",
           store |-> [getDataByName(st, name) EXCEPT ![calcHash(name)].m_name = name]]}

\* variant: the constructor fetches the record before it checks the label
ScopeBenchmarker_ctor_LookupFirst(st, name) ==
    IF name = ""
    THEN {[threw |-> "name cannot be empty", store |-> getDataByName(st, name)]}
    ELSE CountIteration(st, name)

\* ScopeBenchmarker::ScopeBenchmarker(name): the ways it can end, each with
\* the exception thrown and the map left behind
ScopeBenchmarker_ctor(st, name) ==
    IF name = ""
    THEN {[threw |-> "name cannot be empty", store |-> st]}
    ELSE CountIteration(st, name)

\* variant: the destructor counts an iteration as well
ScopeBenchmarker_dtor_CountsIteration(st, hash, thisDurationCount) ==
    LET st1 == getDataByNameHash(st, hash)
        bm == st1[hash]
    IN  [st1 EXCEPT
            ![hash].m_iterations = bm.m_iterations + 1,
            ![hash].m_durationsTotal = bm.m_durationsTotal + thisDurationCount,
            ![hash].m_durationsMin =
                IF thisDurationCount < bm.m_durationsMin
                THEN thisDurationCount ELSE bm.m_durationsMin,
            ![hash].m_durationsMax =
                IF thisDurationCount > bm.m_durationsMax
                THEN thisDurationCount ELSE bm.m_durationsMax]

\* variant: the destructor takes the duration off the total
ScopeBenchmarker_dtor_Subtracts(st, hash, thisDurationCount) ==
    LET st1 == getDataByNameHash(st, hash)
        bm == st1[hash]
    IN  [st1 EXCEPT
            ![hash].m_durationsTotal = bm.m_durationsTotal - thisDurationCount,
            ![hash].m_durationsMin =
                IF thisDurationCount < bm.m_durationsMin
                THEN thisDurationCount ELSE bm.m_durationsMin,
            ![hash].m_durationsMax =
                IF thisDurationCount > bm.m_durationsMax
                THEN thisDurationCount ELSE bm.m_durationsMax]

\* variant: the destructor stores the duration instead of adding it
ScopeBenchmarker_dtor_Overwrites(st, hash, thisDurationCount) ==
    LET st1 == getDataByNameHash(st, hash)
    IN  [st1 EXCEPT ![hash].m_durationsTotal = thisDurationCount,
                    ![hash].m_durationsMin = thisDurationCount,
                    ![hash].m_durationsMax = thisDurationCount]

\* variant: the destructor never raises the maximum
ScopeBenchmarker_dtor_NoMax(st, hash, thisDurationCount) ==
    LET st1 == getDataByNameHash(st, hash)
        bm == st1[hash]
    IN  [st1 EXCEPT
            ![hash].m_durationsTotal = bm.m_durationsTotal + thisDurationCount,
            ![hash].m_durationsMin =
                IF thisDurationCount < bm.m_durationsMin
                THEN thisDurationCount ELSE bm.m_durationsMin]

\* ScopeBenchmarker::~ScopeBenchmarker of a timer with m_nameHash = hash that
\* measured thisDurationCount: the map left behind
ScopeBenchmarker_dtor(st, hash, thisDurationCount) ==
    LET st1 == getDataByNameHash(st, hash)
        bm == st1[hash]
    IN  [st1 EXCEPT
            ![hash].m_durationsTotal = bm.m_durationsTotal + thisDurationCount,
            ![hash].m_durationsMin =
                IF thisDurationCount < bm.m_durationsMin
                THEN thisDurationCount ELSE bm.m_durationsMin,
            ![hash].m_durationsMax =
                IF thisDurationCount > bm.m_durationsMax
                THEN thisDurationCount ELSE bm.m_durationsMax]

\* variant: the destructor looks the record up with at(), which throws for
\* a hash the map does not hold
ScopeBenchmarker_dtor_threw_At(st, hash, thisDurationCount) ==
    IF hash \notin DOMAIN st THEN {"out_of_range"}
    ELSE IF ScopeBenchmarker_dtor(st, hash, thisDurationCount)[hash].m_durationsTotal >= 0
    THEN {"none"} ELSE {"none", "assertion failed"}

\* ScopeBenchmarker::~ScopeBenchmarker, the ways it can end: nothing in it
\* throws; assert(bmData.m_durationsTotal >= 0) stops a debug build when
\* the total is negative and is compiled out of a release build
ScopeBenchmarker_dtor_threw(st, hash, thisDurationCount) ==
    IF ScopeBenchmarker_dtor(st, hash, thisDurationCount)[hash].m_durationsTotal >= 0
    THEN {"none"} ELSE {"none", "assertion failed"}

\* history of one hash since the last clear()/resetAll(): timers constructed,
\* durations of the timers constructed and destroyed since then, and the
\* number of destroyed timers that had been constructed earlier
NoHist == [opened |-> 0, closed |-> [d \in Samples |-> 0], stale |-> 0]

\* a store operation as lastOp records it
Op(op, name, d, threw) == [op |-> op, name |-> name, d |-> d, threw |-> threw]

\* a timer alive at clear()/resetAll() outlives what it counted: it is stale
AllStale(ts) == [h \in DOMAIN ts |-> [fresh |-> 0, stale |-> ts[h].fresh + ts[h].stale]]

\* the threads that use the store
Threads == 1..MaxThreads

\* a thread that has not constructed its timer.  pc: its position (idle,
\* ctorWrite: in the constructor, having read m_iterations; open: its
\* timer is alive; dtorWrite: in the destructor, having read
\* m_durationsTotal; done); reg: the value it read; d: the duration its
\* timer measured; dangling: the record bmData refers to was erased
\* (reg and dangling end with the operation); clears: its clear() calls.  History: since the last clear(), counted:
\* its constructor began, sampled: its destructor began; stale: its timer
\* was alive at a clear(); raced: another thread wrote the field, or
\* erased the record, between a read and a write of this one
IdleThread ==
    [ pc |-> "idle", reg |-> 0, d |-> 0, dangling |-> FALSE, clears |-> 0,
      counted |-> FALSE, sampled |-> FALSE, stale |-> FALSE, raced |-> FALSE ]

\* the program has one thread, the one the other variables describe
SingleThreaded == thread = [t \in Threads |-> IdleThread]

\* no record, no timer alive
StoreInit ==
    /\ SingleThreaded
    /\ store = EmptyStore
    /\ timers = [h \in Hashes |-> [fresh |-> 0, stale |-> 0]]
    /\ hist = [h \in Hashes |-> NoHist]
    /\ lastOp = Op("none", "", 0, "none")
    /\ phaseOps = {}

(***************************************************************************)
(* Hook bodies.                                                            *)
(***************************************************************************)
UserKinds == {"assert", "info"}

HookMsgCount ==
    Cardinality({k \in 1..Len(sErrorMessages) :
                    sErrorMessages[k].kind \in UserKinds /\ sErrorMessages[k].run = runs})
    + Cardinality({k \in 1..Len(sInfoMessages) :
                    sInfoMessages[k].kind \in UserKinds /\ sInfoMessages[k].run = runs})

Effects == IF HookMsgCount < MaxHookMsgs THEN HookEffects ELSE {"none"}

TestBodyEffects == IF HookMsgCount < MaxHookMsgs THEN BodyEffects ELSE {"none"}

\* phase the hooks are called for: -1 main phase, else the loop index
At == IF pc \in {"subPreSetUp", "subSetUp", "subTest", "subTearDown", "subPostTearDown"}
      THEN i ELSE -1

\* variant: the loop takes the callables from the back of tSubTests
CurFunc_Reversed == IF At = -1 THEN "testMethod" ELSE tSubTests[Len(tSubTests) - i][1]

\* the function the current phase runs: a subtest callable or testMethod
CurFunc == IF At = -1 THEN "testMethod" ELSE tSubTests[i + 1][1]

HookErrs(eff) == assertTrue(sErrorMessages, eff # "assertFail", Msg("assert", "", At))

HookInfos(eff) ==
    IF eff = "info" THEN addToInfoMessages(sInfoMessages, Msg("info", "", At))
    ELSE sInfoMessages

Call(hook, eff, ret) ==
    [hook |-> hook, at |-> At, func |-> CurFunc, eff |-> eff, ret |-> ret]

\* the same hook of the same phase function behaved the same in both entries
SameBehaviour(e1, e2) ==
    (e1.hook = e2.hook /\ e1.func = e2.func) => (e1.eff = e2.eff /\ e1.ret = e2.ret)

\* the results of the run before are kept as long as the hooks of this run
\* behave as in that run, and dropped at the first hook that behaves
\* differently
KeepPrev(e) ==
    IF prevRun # <<>>
       /\ \E k \in 1..Len(prevRun[1].calls) : ~SameBehaviour(prevRun[1].calls[k], e)
    THEN <<>> ELSE prevRun

Logged(e) == calls' = Append(calls, e) /\ prevRun' = KeepPrev(e)

\* run() is called again right after it returned: what the owner sees of the
\* object at that moment, and the hook invocations of the run before
Snapshot ==
    [ count |-> getSubTestCount,
      passed |-> getPassedSubTestCount,
      errs |-> Texts(sErrorMessages),
      infos |-> Texts(sInfoMessages),
      calls |-> calls ]

\* variant: the message is appended on success instead of on failure
FailedMsgs_Inverted(errs, ret, m) == IF ret THEN addToErrorMessages(errs, m) ELSE errs

\* variant: the failure of a hook is not recorded
FailedMsgs_Never(errs, ret, m) == errs

\* run() appends its own message m when a hook returned false
FailedMsgs(errs, ret, m) == IF ret THEN errs ELSE addToErrorMessages(errs, m)

\* variant: testMethod() is called whatever setUp() returned
SetUpBranch_RunsTestAnyway(ret) ==
    [ bSkipAllSubTests |-> ~ret,
      pc |-> "testMethod" ]

\* variant: a failed main setUp() does not skip the subtests
SetUpBranch_NoSkip(ret) ==
    [ bSkipAllSubTests |-> FALSE,
      pc |-> IF ret THEN "testMethod" ELSE "tearDown" ]

\* variant: a failed main setUp() gets no tearDown()
SetUpBranch_NoTearDown(ret) ==
    [ bSkipAllSubTests |-> ~ret,
      pc |-> IF ret THEN "testMethod" ELSE "postTearDown" ]

\* variant: run() returns at once when the main setUp() failed
SetUpBranch_NoFinalize(ret) ==
    [ bSkipAllSubTests |-> ~ret,
      pc |-> IF ret THEN "testMethod" ELSE "done" ]

\* the branch run() takes on the value of the main setUp()
SetUpBranch(ret) ==
    [ bSkipAllSubTests |-> ~ret,
      pc |-> IF ret THEN "testMethod" ELSE "tearDown" ]

\* variant: a skipped subtest gets no tearDown()
SubSetUpBranch_NoTearDown(ret) == IF ret THEN "subTest" ELSE "subPostTearDown"

\* the branch run() takes on the value of the setUp() of a subtest
SubSetUpBranch(ret) == IF ret THEN "subTest" ELSE "subTearDown"

\* variant: a passing subtest is not counted
SubTestPassed_NoIncrement(n, ret) == n

\* variant: the counter is incremented whatever the callable returned
SubTestPassed_Always(n, ret) == n + 1

\* if ((this->*func)()) ++nSucceededSubTests;
SubTestPassed(n, ret) == IF ret THEN n + 1 ELSE n

\* variant: the verdict is taken before finalize() runs
RunResult_BeforeFinalize == isPassed

\* return isPassed(); evaluated after finalize() has run
RunResult == isPassed'

\* the history of the run before, taken when run() is entered: kept only
\* when nothing touched the object since that run returned
PrevAtRun == IF pc = "done" THEN <<Snapshot>> ELSE <<>>

(***************************************************************************)
(* Construction: Test::Test calls reset(); the constructor of the derived  *)
(* class may register subtests.                                            *)
(***************************************************************************)
Init ==
    /\ bTestRan = reset.bTestRan
    /\ sErrorMessages = reset.sErrorMessages
    /\ sInfoMessages = reset.sInfoMessages
    /\ iCurrentSubTest = reset.iCurrentSubTest
    /\ bWeAreInSubTest = reset.bWeAreInSubTest
    /\ nSucceededSubTests = reset.nSucceededSubTests
    /\ \E regs \in CtorRegLists :
        /\ tSubTests = addSubTests(<<>>, regs)
        /\ nRegistered = NonNullCount(regs)
    /\ initRegs \in InitRegLists
    /\ pc = "idle"
    /\ i = 0
    /\ bSkipAllSubTests = FALSE
    /\ retVal = FALSE
    /\ runs = 0
    /\ calls = <<>>
    /\ prevRun = <<>>
    /\ StoreInit
    /\ opsLeft = 0
    /\ ConstructedWith(DefaultArgs)

(***************************************************************************)
(* Test::run                                                               *)
(***************************************************************************)
\* variant: run() does not clear the messages and the passed-subtest count
Run_KeepsState ==
    /\ pc \in {"idle", "done"}
    /\ runs < MaxRuns
    /\ Len(addSubTests(tSubTests, initRegs)) <= MaxSubTests
    /\ bTestRan' = TRUE
    /\ iCurrentSubTest' = reset.iCurrentSubTest
    /\ bWeAreInSubTest' = reset.bWeAreInSubTest
    /\ pc' = "initialize"
    /\ runs' = runs + 1
    /\ calls' = <<>>
    /\ prevRun' = PrevAtRun
    /\ i' = 0
    /\ bSkipAllSubTests' = FALSE
    /\ UNCHANGED <<sErrorMessages, sInfoMessages, nSucceededSubTests,
                   tSubTests, retVal, initRegs, nRegistered>>
    /\ UNCHANGED storeVars
    /\ UNCHANGED nameVars

\* run() entered: reset(); bTestRan = true; next is initialize()
Run ==
    /\ pc \in {"idle", "done"}
    /\ runs < MaxRuns
    /\ Len(addSubTests(tSubTests, initRegs)) <= MaxSubTests
    /\ bTestRan' = TRUE
    /\ sErrorMessages' = reset.sErrorMessages
    /\ sInfoMessages' = reset.sInfoMessages
    /\ iCurrentSubTest' = reset.iCurrentSubTest
    /\ bWeAreInSubTest' = reset.bWeAreInSubTest
    /\ nSucceededSubTests' = reset.nSucceededSubTests
    /\ pc' = "initialize"
    /\ runs' = runs + 1
    /\ calls' = <<>>
    /\ prevRun' = PrevAtRun
    /\ i' = 0                      \* the locals of run() start a new life
    /\ bSkipAllSubTests' = FALSE   \* (assigned by run() before it is read)
    /\ UNCHANGED <<tSubTests, retVal, initRegs, nRegistered>>
    /\ UNCHANGED storeVars
    /\ UNCHANGED nameVars

\* initialize(): the class registers its subtests here
Initialize ==
    /\ pc = "initialize"
    /\ \E eff \in Effects :
        /\ sErrorMessages' = HookErrs(eff)
        /\ sInfoMessages' = HookInfos(eff)
        /\ Logged(Call("initialize", eff, TRUE))
    /\ tSubTests' = addSubTests(tSubTests, initRegs)
    /\ nRegistered' = nRegistered + NonNullCount(initRegs)
    /\ pc' = "preSetUp"
    /\ UNCHANGED <<bTestRan, iCurrentSubTest, bWeAreInSubTest, nSucceededSubTests,
                   i, bSkipAllSubTests, retVal, initRegs, runs>>
    /\ UNCHANGED storeVars
    /\ UNCHANGED nameVars

\* preSetUp() before the main setUp(): a no-op in class Test
PreSetUp ==
    /\ pc = "preSetUp"
    /\ Logged(Call("preSetUp", "none", TRUE))
    /\ pc' = "setUp"
    /\ UNCHANGED <<bTestRan, sErrorMessages, sInfoMessages, tSubTests, iCurrentSubTest,
                   bWeAreInSubTest, nSucceededSubTests, i, bSkipAllSubTests, retVal,
                   initRegs, runs, nRegistered>>
    /\ UNCHANGED storeVars
    /\ UNCHANGED nameVars

\* if (setUp()) ... else { bSkipAllSubTests = true; "<file> setUp() failed!" }
SetUp ==
    /\ pc = "setUp"
    /\ \E eff \in Effects, ret \in BOOLEAN :
        /\ sErrorMessages' =
              FailedMsgs(HookErrs(eff), ret, Msg("setUpFailed", sTestFile, -1))
        /\ sInfoMessages' = HookInfos(eff)
        /\ bSkipAllSubTests' = SetUpBranch(ret).bSkipAllSubTests
        /\ pc' = SetUpBranch(ret).pc
        /\ Logged(Call("setUp", eff, ret))
    /\ UNCHANGED <<bTestRan, tSubTests, iCurrentSubTest, bWeAreInSubTest,
                   nSucceededSubTests, i, retVal, initRegs, runs, nRegistered>>
    /\ UNCHANGED storeVars
    /\ UNCHANGED nameVars

\* if (!testMethod()) "<file> failed!"
TestMethod ==
    /\ pc = "testMethod"
    /\ \E eff \in TestBodyEffects, ret \in BOOLEAN :
        /\ sErrorMessages' = FailedMsgs(HookErrs(eff), ret, Msg("failed", sTestFile, -1))
        /\ sInfoMessages' = HookInfos(eff)
        /\ Logged(Call("testMethod", eff, ret))
    /\ pc' = "tearDown"
    /\ UNCHANGED <<bTestRan, tSubTests, iCurrentSubTest, bWeAreInSubTest,
                   nSucceededSubTests, i, bSkipAllSubTests, retVal, initRegs, runs, nRegistered>>
    /\ UNCHANGED storeVars
    /\ UNCHANGED nameVars

\* tearDown() of the main phase
TearDown ==
    /\ pc = "tearDown"
    /\ \E eff \in Effects :
        /\ sErrorMessages' = HookErrs(eff)
        /\ sInfoMessages' = HookInfos(eff)
        /\ Logged(Call("tearDown", eff, TRUE))
    /\ pc' = "postTearDown"
    /\ UNCHANGED <<bTestRan, tSubTests, iCurrentSubTest, bWeAreInSubTest,
                   nSucceededSubTests, i, bSkipAllSubTests, retVal, initRegs, runs, nRegistered>>
    /\ UNCHANGED storeVars
    /\ UNCHANGED nameVars

\* variant: bWeAreInSubTest is not cleared when the loop is left
LoopHead_NoClear(k) ==
    /\ i' = k
    /\ IF k < Len(tSubTests)
       THEN /\ iCurrentSubTest' = k
            /\ bWeAreInSubTest' = TRUE
            /\ pc' = "subPreSetUp"
       ELSE /\ pc' = "finalize"
            /\ UNCHANGED <<iCurrentSubTest, bWeAreInSubTest>>

\* variant: the loop does not record the index of the subtest it runs
LoopHead_StaleIndex(k) ==
    /\ i' = k
    /\ IF k < Len(tSubTests)
       THEN /\ bWeAreInSubTest' = TRUE
            /\ pc' = "subPreSetUp"
            /\ UNCHANGED iCurrentSubTest
       ELSE /\ bWeAreInSubTest' = FALSE
            /\ pc' = "finalize"
            /\ UNCHANGED iCurrentSubTest

\* variant: the loop stops one subtest early
LoopHead_OffByOne(k) ==
    /\ i' = k
    /\ IF k + 1 < Len(tSubTests)
       THEN /\ iCurrentSubTest' = k
            /\ bWeAreInSubTest' = TRUE
            /\ pc' = "subPreSetUp"
       ELSE /\ bWeAreInSubTest' = FALSE
            /\ pc' = "finalize"
            /\ UNCHANGED iCurrentSubTest

\* the head of the subtest loop with loop variable k: either the body is
\* entered for subtest k, or the loop is left and finalize() is next
LoopHead(k) ==
    /\ i' = k
    /\ IF k < Len(tSubTests)
       THEN /\ iCurrentSubTest' = k
            /\ bWeAreInSubTest' = TRUE
            /\ pc' = "subPreSetUp"
       ELSE /\ bWeAreInSubTest' = FALSE
            /\ pc' = "finalize"
            /\ UNCHANGED iCurrentSubTest

\* postTearDown() of the main phase (a no-op in class Test), then
\* if (!bSkipAllSubTests) { bWeAreInSubTest = true; for (i = 0; ...
PostTearDown ==
    /\ pc = "postTearDown"
    /\ Logged(Call("postTearDown", "none", TRUE))
    /\ IF ~bSkipAllSubTests
       THEN LoopHead(0)
       ELSE pc' = "finalize" /\ UNCHANGED <<i, iCurrentSubTest, bWeAreInSubTest>>
    /\ UNCHANGED <<bTestRan, sErrorMessages, sInfoMessages, tSubTests,
                   nSucceededSubTests, bSkipAllSubTests, retVal, initRegs, runs, nRegistered>>
    /\ UNCHANGED storeVars
    /\ UNCHANGED nameVars

\* variant: the loop does not call preSetUp()
SubPreSetUp_Skipped ==
    /\ pc = "subPreSetUp"
    /\ pc' = "subSetUp"
    /\ UNCHANGED <<bTestRan, sErrorMessages, sInfoMessages, tSubTests, iCurrentSubTest,
                   bWeAreInSubTest, nSucceededSubTests, i, bSkipAllSubTests, retVal,
                   initRegs, runs, nRegistered, calls, prevRun>>
    /\ UNCHANGED storeVars
    /\ UNCHANGED nameVars

\* preSetUp() of subtest i
SubPreSetUp ==
    /\ pc = "subPreSetUp"
    /\ Logged(Call("preSetUp", "none", TRUE))
    /\ pc' = "subSetUp"
    /\ UNCHANGED <<bTestRan, sErrorMessages, sInfoMessages, tSubTests, iCurrentSubTest,
                   bWeAreInSubTest, nSucceededSubTests, i, bSkipAllSubTests, retVal,
                   initRegs, runs, nRegistered>>
    /\ UNCHANGED storeVars
    /\ UNCHANGED nameVars

\* if (setUp()) ... else "<name> SKIPPED due to setUp() failed!"
SubSetUp ==
    /\ pc = "subSetUp"
    /\ \E eff \in Effects, ret \in BOOLEAN :
        /\ sErrorMessages' =
              FailedMsgs(HookErrs(eff), ret, Msg("skipped", tSubTests[i + 1][2], i))
        /\ sInfoMessages' = HookInfos(eff)
        /\ pc' = SubSetUpBranch(ret)
        /\ Logged(Call("setUp", eff, ret))
    /\ UNCHANGED <<bTestRan, tSubTests, iCurrentSubTest, bWeAreInSubTest,
                   nSucceededSubTests, i, bSkipAllSubTests, retVal, initRegs, runs, nRegistered>>
    /\ UNCHANGED storeVars
    /\ UNCHANGED nameVars

\* if ((this->*func)()) ++nSucceededSubTests; else "<name> failed!"
SubTest ==
    /\ pc = "subTest"
    /\ \E eff \in TestBodyEffects, ret \in BOOLEAN :
        /\ sErrorMessages' =
              FailedMsgs(HookErrs(eff), ret, Msg("subFailed", tSubTests[i + 1][2], i))
        /\ sInfoMessages' = HookInfos(eff)
        /\ nSucceededSubTests' = SubTestPassed(nSucceededSubTests, ret)
        /\ Logged(Call("subTest", eff, ret))
    /\ pc' = "subTearDown"
    /\ UNCHANGED <<bTestRan, tSubTests, iCurrentSubTest, bWeAreInSubTest,
                   i, bSkipAllSubTests, retVal, initRegs, runs, nRegistered>>
    /\ UNCHANGED storeVars
    /\ UNCHANGED nameVars

\* tearDown() of subtest i
SubTearDown ==
    /\ pc = "subTearDown"
    /\ \E eff \in Effects :
        /\ sErrorMessages' = HookErrs(eff)
        /\ sInfoMessages' = HookInfos(eff)
        /\ Logged(Call("tearDown", eff, TRUE))
    /\ pc' = "subPostTearDown"
    /\ UNCHANGED <<bTestRan, tSubTests, iCurrentSubTest, bWeAreInSubTest,
                   nSucceededSubTests, i, bSkipAllSubTests, retVal, initRegs, runs, nRegistered>>
    /\ UNCHANGED storeVars
    /\ UNCHANGED nameVars

\* postTearDown() of subtest i, then ++i and the loop head
SubPostTearDown ==
    /\ pc = "subPostTearDown"
    /\ Logged(Call("postTearDown", "none", TRUE))
    /\ LoopHead(i + 1)
    /\ UNCHANGED <<bTestRan, sErrorMessages, sInfoMessages, tSubTests,
                   nSucceededSubTests, bSkipAllSubTests, retVal, initRegs, runs, nRegistered>>
    /\ UNCHANGED storeVars
    /\ UNCHANGED nameVars

\* finalize(); return isPassed();
Finalize ==
    /\ pc = "finalize"
    /\ \E eff \in Effects :
        /\ sErrorMessages' = HookErrs(eff)
        /\ sInfoMessages' = HookInfos(eff)
        /\ Logged(Call("finalize", eff, TRUE))
    /\ UNCHANGED bTestRan
    /\ retVal' = RunResult
    /\ pc' = "done"
    /\ UNCHANGED <<tSubTests, iCurrentSubTest, bWeAreInSubTest, nSucceededSubTests,
                   i, bSkipAllSubTests, initRegs, runs, nRegistered>>
    /\ UNCHANGED storeVars
    /\ UNCHANGED nameVars

(***************************************************************************)
(* The owner of the object uses its public API between two runs.           *)
(***************************************************************************)
OutsideMsgCount ==
    Cardinality({k \in 1..Len(sErrorMessages) : sErrorMessages[k].kind = "outsideAssert"})
    + Cardinality({k \in 1..Len(sInfoMessages) : sInfoMessages[k].kind = "outsideInfo"})

\* assertTrue(statement) called on the object while run() is not executing
OutsideAssert ==
    /\ pc \in {"idle", "done"}
    /\ OutsideMsgCount < MaxOutsideMsgs
    /\ \E statement \in BOOLEAN :
        sErrorMessages' = assertTrue(sErrorMessages, statement, Msg("outsideAssert", "", -1))
    /\ pc' = "idle"
    /\ UNCHANGED <<bTestRan, sInfoMessages, tSubTests, iCurrentSubTest, bWeAreInSubTest,
                   nSucceededSubTests, i, bSkipAllSubTests, retVal, initRegs, runs,
                   calls, nRegistered, prevRun>>
    /\ UNCHANGED storeVars
    /\ UNCHANGED nameVars

\* addToInfoMessages() called on the object while run() is not executing
OutsideInfo ==
    /\ pc \in {"idle", "done"}
    /\ OutsideMsgCount < MaxOutsideMsgs
    /\ sInfoMessages' = addToInfoMessages(sInfoMessages, Msg("outsideInfo", "", -1))
    /\ pc' = "idle"
    /\ UNCHANGED <<bTestRan, sErrorMessages, tSubTests, iCurrentSubTest, bWeAreInSubTest,
                   nSucceededSubTests, i, bSkipAllSubTests, retVal, initRegs, runs,
                   calls, nRegistered, prevRun>>
    /\ UNCHANGED storeVars
    /\ UNCHANGED nameVars

Next ==
    \/ Run
    \/ Initialize
    \/ PreSetUp
    \/ SetUp
    \/ TestMethod
    \/ TearDown
    \/ PostTearDown
    \/ SubPreSetUp
    \/ SubSetUp
    \/ SubTest
    \/ SubTearDown
    \/ SubPostTearDown
    \/ Finalize
    \/ OutsideAssert
    \/ OutsideInfo

Spec == Init /\ [][Next]_vars

(***************************************************************************)
(* Code that uses the scoped timers and the store.  Each action is one     *)
(* call; the calls of one thread happen one after the other.               *)
(***************************************************************************)
\* positions of run() at which user code executes (idle, done: the owner's
\* code outside run()); a failed assert() has ended the program
UserCode ==
    /\ pc \in {"idle", "done", "initialize", "setUp", "testMethod", "tearDown",
               "subSetUp", "subTest", "subTearDown", "finalize"}
    /\ lastOp.threw # "assertion failed"

\* ScopeBenchmarker<milliseconds> t(name);
Construct ==
    /\ UserCode
    /\ opsLeft > 0
    /\ \E name \in Names \cup {""} :
      \E r \in ScopeBenchmarker_ctor(store, name) :
        LET hash == calcHash(name)
        IN  /\ store' = r.store
            /\ lastOp' = Op("ctor", name, 0, r.threw)
            /\ IF r.threw = "none"
               THEN /\ timers' = [timers EXCEPT ![hash].fresh = @ + 1]
                    /\ hist' = [hist EXCEPT ![hash].opened = @ + 1]
                    /\ phaseOps' = phaseOps \cup {<<"ctor", hash>>}
               ELSE UNCHANGED <<timers, hist, phaseOps>>
    /\ opsLeft' = opsLeft - 1
    /\ UNCHANGED testVars
    /\ UNCHANGED thread

\* a timer goes out of scope, having measured d
Destruct ==
    /\ UserCode
    /\ opsLeft > 0
    /\ \E hash \in Hashes, stale \in BOOLEAN, d \in Samples :
        /\ IF stale THEN timers[hash].stale > 0 ELSE timers[hash].fresh > 0
        /\ store' = ScopeBenchmarker_dtor(store, hash, d)
        /\ timers' = IF stale THEN [timers EXCEPT ![hash].stale = @ - 1]
                     ELSE [timers EXCEPT ![hash].fresh = @ - 1]
        /\ hist' = IF stale THEN [hist EXCEPT ![hash].stale = @ + 1]
                   ELSE [hist EXCEPT ![hash].closed[d] = @ + 1]
        /\ \E threw \in ScopeBenchmarker_dtor_threw(store, hash, d) :
              lastOp' = Op("dtor", hash[2], d, threw)
        /\ phaseOps' = phaseOps \cup {<<"dtor", hash>>}
    /\ opsLeft' = opsLeft - 1
    /\ UNCHANGED testVars
    /\ UNCHANGED thread

\* ScopeBenchmarkerDataStore::getDataByName(name), the result being read
GetDataByName ==
    /\ UserCode
    /\ opsLeft > 0
    /\ \E name \in Names :
        /\ store' = getDataByName(store, name)
        /\ lastOp' = Op("getDataByName", name, 0, "none")
        /\ phaseOps' = phaseOps \cup {<<"getDataByName", calcHash(name)>>}
    /\ opsLeft' = opsLeft - 1
    /\ UNCHANGED <<timers, hist>>
    /\ UNCHANGED testVars
    /\ UNCHANGED thread

\* ScopeBenchmarkerDataStore::resetAll()
ResetAll ==
    /\ UserCode
    /\ opsLeft > 0
    /\ store' = resetAll(store)
    /\ timers' = AllStale(timers)
    /\ hist' = [h \in Hashes |-> NoHist]
    /\ lastOp' = Op("resetAll", "", 0, "none")
    /\ opsLeft' = opsLeft - 1
    /\ UNCHANGED phaseOps
    /\ UNCHANGED testVars
    /\ UNCHANGED thread

\* ScopeBenchmarkerDataStore::clear()
Clear ==
    /\ UserCode
    /\ opsLeft > 0
    /\ store' = clear(store)
    /\ timers' = AllStale(timers)
    /\ hist' = [h \in Hashes |-> NoHist]
    /\ lastOp' = Op("clear", "", 0, "none")
    /\ opsLeft' = opsLeft - 1
    /\ UNCHANGED phaseOps
    /\ UNCHANGED testVars
    /\ UNCHANGED thread

\* a program that uses the timers without a Benchmark object running
InitStore ==
    /\ bTestRan = reset.bTestRan
    /\ sErrorMessages = reset.sErrorMessages
    /\ sInfoMessages = reset.sInfoMessages
    /\ iCurrentSubTest = reset.iCurrentSubTest
    /\ bWeAreInSubTest = reset.bWeAreInSubTest
    /\ nSucceededSubTests = reset.nSucceededSubTests
    /\ tSubTests = <<>>
    /\ nRegistered = 0
    /\ initRegs = <<>>
    /\ pc = "idle"
    /\ i = 0
    /\ bSkipAllSubTests = FALSE
    /\ retVal = FALSE
    /\ runs = 0
    /\ calls = <<>>
    /\ prevRun = <<>>
    /\ StoreInit
    /\ opsLeft = MaxStoreOps
    /\ ConstructedWith(DefaultArgs)

StoreNext ==
    \/ Construct
    \/ Destruct
    \/ GetDataByName
    \/ ResetAll
    \/ Clear

StoreSpec == InitStore /\ [][StoreNext]_vars

\* the record of a label after n timers of it were constructed and each
\* was destroyed having measured 0
UsedRecord(name, n) ==
    [BmData EXCEPT !.m_name = name, !.m_durationsMin = 0, !.m_iterations = n,
                   !.m_ratioDenominator = period_den]

\* a program that has timed the label "a" so often that its counter is at,
\* or one before, the greatest value of its type
InitWrap ==
    /\ bTestRan = reset.bTestRan
    /\ sErrorMessages = reset.sErrorMessages
    /\ sInfoMessages = reset.sInfoMessages
    /\ iCurrentSubTest = reset.iCurrentSubTest
    /\ bWeAreInSubTest = reset.bWeAreInSubTest
    /\ nSucceededSubTests = reset.nSucceededSubTests
    /\ tSubTests = <<>>
    /\ nRegistered = 0
    /\ initRegs = <<>>
    /\ pc = "idle"
    /\ i = 0
    /\ bSkipAllSubTests = FALSE
    /\ retVal = FALSE
    /\ runs = 0
    /\ calls = <<>>
    /\ prevRun = <<>>
    /\ SingleThreaded
    /\ \E n \in {LLONG_MAX - 1, LLONG_MAX} :
        /\ store = [h \in {calcHash("a")} |-> UsedRecord("a", n)]
        /\ hist = [h \in Hashes |->
                     IF h = calcHash("a")
                     THEN [opened |-> n,
                           closed |-> [d \in Samples |-> IF d = 0 THEN n ELSE 0],
                           stale |-> 0]
                     ELSE NoHist]
    /\ timers = [h \in Hashes |-> [fresh |-> 0, stale |-> 0]]
    /\ lastOp = Op("none", "", 0, "none")
    /\ phaseOps = {}
    /\ opsLeft = MaxStoreOps
    /\ ConstructedWith(DefaultArgs)

WrapSpec == InitWrap /\ [][StoreNext]_vars

(***************************************************************************)
(* Test::Test.  The constructor is entered with the strings and vectors    *)
(* of the object empty and its other members not yet initialized.          *)
(***************************************************************************)
InitCtor ==
    /\ bTestRan \in BOOLEAN
    /\ bWeAreInSubTest \in BOOLEAN
    /\ iCurrentSubTest \in {0, MaxSubTests}
    /\ nSucceededSubTests \in {0, MaxSubTests}
    /\ sErrorMessages = <<>>
    /\ sInfoMessages = <<>>
    /\ tSubTests = <<>>
    /\ sTestName = ""
    /\ sTestFile = <<>>
    /\ ctorArgs \in [testFile : Paths, testName : TestNames]
    /\ nRegistered = 0
    /\ initRegs = <<>>
    /\ pc = "ctor"
    /\ i = 0
    /\ bSkipAllSubTests = FALSE
    /\ retVal = FALSE
    /\ runs = 0
    /\ calls = <<>>
    /\ prevRun = <<>>
    /\ StoreInit
    /\ opsLeft = 0

\* the body of the constructor: reset(), then the two names
Test_Test ==
    /\ pc = "ctor"
    /\ bTestRan' = reset.bTestRan
    /\ sErrorMessages' = reset.sErrorMessages
    /\ sInfoMessages' = reset.sInfoMessages
    /\ iCurrentSubTest' = reset.iCurrentSubTest
    /\ bWeAreInSubTest' = reset.bWeAreInSubTest
    /\ nSucceededSubTests' = reset.nSucceededSubTests
    /\ sTestName' = Test_ctor(ctorArgs.testFile, ctorArgs.testName).sTestName
    /\ sTestFile' = Test_ctor(ctorArgs.testFile, ctorArgs.testName).sTestFile
    /\ pc' = "idle"
    /\ UNCHANGED <<tSubTests, i, bSkipAllSubTests, retVal, initRegs, runs, calls,
                   nRegistered, prevRun, ctorArgs>>
    /\ UNCHANGED storeVars

CtorSpec == InitCtor /\ [][Test_Test]_vars

(***************************************************************************)
(* class Benchmark (Benchmarks.h): its run() is the lifecycle of a test    *)
(* with initBenchmarkers() before every setUp() and printBenchmarkers()    *)
(* after every tearDown().  The hook bodies are user code that uses the    *)
(* scoped timers: the store actions above, taken while pc is at a hook.    *)
(* pc = "preSetUp" is the position before initBenchmarkers() and           *)
(* pc = "postTearDown" the position before printBenchmarkers().            *)
(***************************************************************************)
\* the addSubTest() calls the benchmark class makes in initialize()
BenchRegLists ==
    { <<>>,
      << <<"test_scope_benchmarking", "test_scope_benchmarking">> >> }

\* variant: the store is not cleared before setUp()
initBenchmarkers_Nothing(st) == st

\* Benchmark::initBenchmarkers, the map it leaves behind
initBenchmarkers(st) == clear(st)

\* the info messages of the records of hashes; the hash is a history tag of
\* the message, its text is made from the record.  The order of the lines
\* is that of the hashes.
RECURSIVE ReportLines(_, _, _)
ReportLines(st, hashes, at) ==
    IF hashes = {} THEN <<>>
    ELSE LET hash == CHOOSE h \in hashes : TRUE
         IN  <<Msg("bmData", <<hash, st[hash]>>, at)>>
                 \o ReportLines(st, hashes \ {hash}, at)

\* variant: the report is the header line alone, and it is always written
printBenchmarkers_HeaderOnly(st, infos, at) ==
    [ infos |-> addToInfoMessages(infos, Msg("bmHeader", "", at)),
      store |-> clear(st) ]

\* Benchmark::printBenchmarkers in phase at: the info messages and the map
\* it leaves behind
printBenchmarkers(st, infos, at) ==
    IF st = EmptyStore
    THEN [infos |-> infos, store |-> st]
    ELSE [ infos |-> addToInfoMessages(infos, Msg("bmHeader", "", at))
                        \o ReportLines(st, DOMAIN st, at),
           store |-> clear(st) ]

\* what every step of Benchmark::run() leaves alone
BenchFrame ==
    UNCHANGED <<bWeAreInSubTest, retVal, initRegs, calls, prevRun, opsLeft, nameVars, thread>>

\* a step of run() that does not touch the store
StoreKept == UNCHANGED <<store, timers, hist, lastOp, phaseOps>>

\* run() entered: reset(); bTestRan = true; next is initialize()
BenchRun ==
    /\ pc \in {"idle", "done"}
    /\ runs < MaxBenchRuns
    /\ Len(addSubTests(tSubTests, initRegs)) <= MaxSubTests
    /\ bTestRan' = TRUE
    /\ sErrorMessages' = reset.sErrorMessages
    /\ sInfoMessages' = reset.sInfoMessages
    /\ iCurrentSubTest' = reset.iCurrentSubTest
    /\ nSucceededSubTests' = reset.nSucceededSubTests
    /\ pc' = "initialize"
    /\ runs' = runs + 1
    /\ i' = 0
    /\ bSkipAllSubTests' = FALSE
    /\ UNCHANGED <<tSubTests, nRegistered>>
    /\ StoreKept
    /\ BenchFrame

\* initialize() returns
BenchInitialize ==
    /\ pc = "initialize"
    /\ tSubTests' = addSubTests(tSubTests, initRegs)
    /\ nRegistered' = nRegistered + NonNullCount(initRegs)
    /\ pc' = "preSetUp"
    /\ UNCHANGED <<bTestRan, sErrorMessages, sInfoMessages, iCurrentSubTest,
                   nSucceededSubTests, i, bSkipAllSubTests, runs>>
    /\ StoreKept
    /\ BenchFrame

\* initBenchmarkers() called by run(), which goes on to next
InitBenchmarkers(next) ==
    /\ store' = initBenchmarkers(store)
    /\ timers' = AllStale(timers)
    /\ hist' = [h \in Hashes |-> NoHist]
    /\ lastOp' = Op("initBenchmarkers", "", 0, "none")
    /\ phaseOps' = {}
    /\ pc' = next
    /\ UNCHANGED <<bTestRan, sErrorMessages, sInfoMessages, tSubTests, iCurrentSubTest,
                   nSucceededSubTests, i, bSkipAllSubTests, runs, nRegistered>>
    /\ BenchFrame

\* initBenchmarkers() before the main setUp()
BenchInitBenchmarkers ==
    /\ pc = "preSetUp"
    /\ InitBenchmarkers("setUp")

\* the main setUp() returns
BenchSetUp ==
    /\ pc = "setUp"
    /\ \E ret \in BOOLEAN :
        /\ sErrorMessages' = FailedMsgs(sErrorMessages, ret, Msg("setUpFailed", sTestFile, -1))
        /\ bSkipAllSubTests' = SetUpBranch(ret).bSkipAllSubTests
        /\ pc' = SetUpBranch(ret).pc
    /\ UNCHANGED <<bTestRan, sInfoMessages, tSubTests, iCurrentSubTest,
                   nSucceededSubTests, i, runs, nRegistered>>
    /\ StoreKept
    /\ BenchFrame

\* testMethod() returns
BenchTestMethod ==
    /\ pc = "testMethod"
    /\ \E ret \in BOOLEAN :
        sErrorMessages' = FailedMsgs(sErrorMessages, ret, Msg("failed", sTestFile, -1))
    /\ pc' = "tearDown"
    /\ UNCHANGED <<bTestRan, sInfoMessages, tSubTests, iCurrentSubTest,
                   nSucceededSubTests, i, bSkipAllSubTests, runs, nRegistered>>
    /\ StoreKept
    /\ BenchFrame

\* tearDown() of the main phase returns
BenchTearDown ==
    /\ pc = "tearDown"
    /\ pc' = "postTearDown"
    /\ UNCHANGED <<bTestRan, sErrorMessages, sInfoMessages, tSubTests, iCurrentSubTest,
                   nSucceededSubTests, i, bSkipAllSubTests, runs, nRegistered>>
    /\ StoreKept
    /\ BenchFrame

\* the head of the subtest loop of Benchmark::run() with loop variable k
BenchLoopHead(k) ==
    /\ i' = k
    /\ IF k < Len(tSubTests)
       THEN iCurrentSubTest' = k /\ pc' = "subPreSetUp"
       ELSE pc' = "finalize" /\ UNCHANGED iCurrentSubTest

\* printBenchmarkers() called by run() in phase at
PrintBenchmarkers(at) ==
    /\ sInfoMessages' = printBenchmarkers(store, sInfoMessages, at).infos
    /\ store' = printBenchmarkers(store, sInfoMessages, at).store
    /\ timers' = IF store = EmptyStore THEN timers ELSE AllStale(timers)
    /\ hist' = IF store = EmptyStore THEN hist ELSE [h \in Hashes |-> NoHist]
    /\ lastOp' = Op("printBenchmarkers", "", 0, "none")
    /\ UNCHANGED phaseOps
    /\ UNCHANGED <<bTestRan, sErrorMessages, tSubTests, nSucceededSubTests,
                   bSkipAllSubTests, runs, nRegistered>>
    /\ BenchFrame

\* printBenchmarkers() of the main phase, then if (!bSkipAllSubTests) for ...
BenchPrintBenchmarkers ==
    /\ pc = "postTearDown"
    /\ PrintBenchmarkers(-1)
    /\ IF ~bSkipAllSubTests
       THEN BenchLoopHead(0)
       ELSE pc' = "finalize" /\ UNCHANGED <<i, iCurrentSubTest>>

\* initBenchmarkers() before the setUp() of subtest i
BenchSubInitBenchmarkers ==
    /\ pc = "subPreSetUp"
    /\ InitBenchmarkers("subSetUp")

\* the setUp() of subtest i returns
BenchSubSetUp ==
    /\ pc = "subSetUp"
    /\ \E ret \in BOOLEAN :
        /\ sErrorMessages' =
              FailedMsgs(sErrorMessages, ret, Msg("skipped", tSubTests[i + 1][2], i))
        /\ pc' = SubSetUpBranch(ret)
    /\ UNCHANGED <<bTestRan, sInfoMessages, tSubTests, iCurrentSubTest,
                   nSucceededSubTests, i, bSkipAllSubTests, runs, nRegistered>>
    /\ StoreKept
    /\ BenchFrame

\* the callable of subtest i returns
BenchSubTest ==
    /\ pc = "subTest"
    /\ \E ret \in BOOLEAN :
        /\ sErrorMessages' =
              FailedMsgs(sErrorMessages, ret, Msg("subFailed", tSubTests[i + 1][2], i))
        /\ nSucceededSubTests' = SubTestPassed(nSucceededSubTests, ret)
    /\ pc' = "subTearDown"
    /\ UNCHANGED <<bTestRan, sInfoMessages, tSubTests, iCurrentSubTest,
                   i, bSkipAllSubTests, runs, nRegistered>>
    /\ StoreKept
    /\ BenchFrame

\* tearDown() of subtest i returns
BenchSubTearDown ==
    /\ pc = "subTearDown"
    /\ pc' = "subPostTearDown"
    /\ UNCHANGED <<bTestRan, sErrorMessages, sInfoMessages, tSubTests, iCurrentSubTest,
                   nSucceededSubTests, i, bSkipAllSubTests, runs, nRegistered>>
    /\ StoreKept
    /\ BenchFrame

\* printBenchmarkers() of subtest i, then ++i and the loop head
BenchSubPrintBenchmarkers ==
    /\ pc = "subPostTearDown"
    /\ PrintBenchmarkers(i)
    /\ BenchLoopHead(i + 1)

\* finalize() returns; return isPassed();
BenchFinalize ==
    /\ pc = "finalize"
    /\ pc' = "done"
    /\ UNCHANGED <<bTestRan, sErrorMessages, sInfoMessages, tSubTests, iCurrentSubTest,
                   bWeAreInSubTest, nSucceededSubTests, i, bSkipAllSubTests, initRegs,
                   runs, calls, nRegistered, prevRun, opsLeft, nameVars, thread>>
    /\ retVal' = isPassed
    /\ StoreKept

\* one Benchmark object is constructed; the store is the static map
InitBench ==
    /\ bTestRan = reset.bTestRan
    /\ sErrorMessages = reset.sErrorMessages
    /\ sInfoMessages = reset.sInfoMessages
    /\ iCurrentSubTest = reset.iCurrentSubTest
    /\ bWeAreInSubTest = reset.bWeAreInSubTest
    /\ nSucceededSubTests = reset.nSucceededSubTests
    /\ tSubTests = <<>>
    /\ nRegistered = 0
    /\ initRegs \in BenchRegLists
    /\ pc = "idle"
    /\ i = 0
    /\ bSkipAllSubTests = FALSE
    /\ retVal = FALSE
    /\ runs = 0
    /\ calls = <<>>
    /\ prevRun = <<>>
    /\ StoreInit
    /\ opsLeft = MaxBenchOps
    /\ ConstructedWith(DefaultArgs)

BenchNext ==
    \/ BenchRun
    \/ BenchInitialize
    \/ BenchInitBenchmarkers
    \/ BenchSetUp
    \/ BenchTestMethod
    \/ BenchTearDown
    \/ BenchPrintBenchmarkers
    \/ BenchSubInitBenchmarkers
    \/ BenchSubSetUp
    \/ BenchSubTest
    \/ BenchSubTearDown
    \/ BenchSubPrintBenchmarkers
    \/ BenchFinalize
    \/ Construct
    \/ Destruct
    \/ GetDataByName
    \/ ResetAll
    \/ Clear

BenchSpec == InitBench /\ [][BenchNext]_vars

(***************************************************************************)
(* Queries on the history of the current run.                              *)
(***************************************************************************)
\* the entries of calls for hook in phase at (-1: main phase)
CallsOf(hook, at) ==
    {k \in 1..Len(calls) : calls[k].hook = hook /\ calls[k].at = at}

\* hook was called in phase at and returned ret
Returned(hook, at, ret) ==
    \E k \in CallsOf(hook, at) : calls[k].ret = ret

\* run() is not executing and nothing touched the object since it returned
JustReturned == pc = "done"

\* run() has returned at least once and is not executing
AfterRun == runs >= 1 /\ pc \in {"done", "idle"}

\* no hook body of the current run appended an error message
NoHookErrors == \A k \in 1..Len(calls) : calls[k].eff # "assertFail"

\* the error messages of kind kind appended for phase at
ErrorsOf(kind, at) ==
    {k \in 1..Len(sErrorMessages) :
        sErrorMessages[k].kind = kind /\ sErrorMessages[k].at = at}

SubIndexes == 0..(getSubTestCount - 1)

\* root setUp() succeeded, testMethod() returned true, and every registered
\* subtest had a successful setUp() and returned true
AllSucceeded ==
    /\ Returned("setUp", -1, TRUE)
    /\ Returned("testMethod", -1, TRUE)
    /\ \A j \in SubIndexes : Returned("setUp", j, TRUE) /\ Returned("subTest", j, TRUE)
    /\ getPassedSubTestCount = getSubTestCount

(***************************************************************************)
(* Claims.                                                                 *)
(***************************************************************************)

\* C1: in every reachable state isPassed() is true if and only if run() has
\* been started at least once and the error-message sequence is empty; it is
\* false for a constructed case that has never run.
C1_PassedIffRanAndNoErrors ==
    isPassed <=> (runs >= 1 /\ sErrorMessages = <<>>)

\* C1 witness: a run has returned and the case is passed
C1_Witness == JustReturned /\ runs >= 1 /\ isPassed /\ retVal

\* C2: if the main setUp() returned false, testMethod() is not invoked in
\* that run, at least one error message is appended, isPassed() is false
\* after run(), and tearDown() is invoked exactly once for the main phase.
C2_MainSetUpFailure ==
    Returned("setUp", -1, FALSE) =>
        /\ CallsOf("testMethod", -1) = {}
        /\ ErrorsOf("setUpFailed", -1) # {}
        /\ ~isPassed
        /\ Cardinality(CallsOf("tearDown", -1)) <= 1
        /\ AfterRun => Cardinality(CallsOf("tearDown", -1)) = 1

\* C2 witness: a run whose main setUp() returned false has returned
C2_Witness == JustReturned /\ Returned("setUp", -1, FALSE)

C4_SubSetUpFailureSkipsOnlyThatSubTest ==
    AfterRun =>
        \A j \in SubIndexes :
            Returned("setUp", j, FALSE) =>
                /\ CallsOf("subTest", j) = {}
                /\ Cardinality(ErrorsOf("skipped", j)) = 1
                /\ \A k \in ErrorsOf("skipped", j) :
                      sErrorMessages[k].name = tSubTests[j + 1][2]
                /\ Cardinality(CallsOf("tearDown", j)) = 1
                /\ getPassedSubTestCount =
                      Cardinality({k \in 1..Len(calls) :
                                      calls[k].hook = "subTest" /\ calls[k].ret})
                /\ getPassedSubTestCount <= getSubTestCount - 1
                /\ \A l \in SubIndexes :
                      l > j =>
                        /\ Cardinality(CallsOf("setUp", l)) = 1
                        /\ Returned("setUp", l, TRUE) =>
                              Cardinality(CallsOf("subTest", l)) = 1

\* C4 witness: the first of two subtests was skipped and the second one ran
C4_Witness ==
    /\ JustReturned
    /\ getSubTestCount >= 2
    /\ Returned("setUp", 0, FALSE)
    /\ Returned("subTest", 1, TRUE)

\* C5: for N registered subtests, if setUp() succeeded for every subtest and
\* every subtest callable returned true, getPassedSubTestCount() = N after
\* run().
C5_AllSubTestsPass ==
    (AfterRun /\ \A j \in SubIndexes :
                    Returned("setUp", j, TRUE) /\ Returned("subTest", j, TRUE))
        => getPassedSubTestCount = getSubTestCount

\* C5 witness: two subtests were set up and both returned true
C5_Witness ==
    /\ JustReturned
    /\ getSubTestCount >= 2
    /\ \A j \in SubIndexes : Returned("setUp", j, TRUE) /\ Returned("subTest", j, TRUE)

\* the functions of the subtest phases of a run, in execution order
RECURSIVE SubPhases(_)
SubPhases(cs) ==
    IF cs = <<>> THEN <<>>
    ELSE IF Head(cs).hook = "preSetUp" /\ Head(cs).at # -1
         THEN <<Head(cs).func>> \o SubPhases(Tail(cs))
         ELSE SubPhases(Tail(cs))

\* C6: each run() is a fresh, independent evaluation: for a case whose hooks
\* behave identically on every run (also one that registers its subtests in
\* initialize()), a second run() yields the same getSubTestCount(), the same
\* getPassedSubTestCount() and the same message sequences as the first, and
\* every subtest is executed exactly once per run.
C6_RerunIsFresh ==
    (JustReturned /\ prevRun # <<>>) =>
        /\ getSubTestCount = prevRun[1].count
        /\ getPassedSubTestCount = prevRun[1].passed
        /\ Texts(sErrorMessages) = prevRun[1].errs
        /\ Texts(sInfoMessages) = prevRun[1].infos
        /\ SubPhases(calls) = SubPhases(prevRun[1].calls)

\* C7: a re-invoked run() starts from empty info-message and error-message
\* sequences and a zero passed-subtest count; after the k-th run() the
\* messages and the passed-subtest count reflect only events of the k-th
\* run, never those of earlier runs or of assertions made between runs.
C7_RunStartsFresh ==
    /\ pc = "initialize" =>
          /\ sErrorMessages = <<>>
          /\ sInfoMessages = <<>>
          /\ getPassedSubTestCount = 0
    /\ JustReturned =>
          /\ \A k \in 1..Len(sErrorMessages) :
                /\ sErrorMessages[k].run = runs
                /\ sErrorMessages[k].kind # "outsideAssert"
          /\ \A k \in 1..Len(sInfoMessages) :
                /\ sInfoMessages[k].run = runs
                /\ sInfoMessages[k].kind # "outsideInfo"
          /\ getPassedSubTestCount =
                Cardinality({k \in 1..Len(calls) :
                                calls[k].hook = "subTest" /\ calls[k].ret})

\* C7 witness: a second run has returned right after a first run that had
\* left error messages, info messages and a passed subtest
C7_Witness ==
    /\ JustReturned
    /\ runs >= 2
    /\ prevRun # <<>>
    /\ prevRun[1].errs # <<>>
    /\ prevRun[1].infos # <<>>
    /\ prevRun[1].passed >= 1

\* C8 as stated: for a case with zero subtests whose setUp() returned true
\* and whose testMethod() returned true, after run() isPassed() is true and
\* the error-message sequence is empty.
C8_Original ==
    (JustReturned /\ getSubTestCount = 0
        /\ Returned("setUp", -1, TRUE) /\ Returned("testMethod", -1, TRUE))
        => (isPassed /\ sErrorMessages = <<>>)

\* C8 amended: for a case with zero subtests whose setUp() returned true,
\* whose testMethod() returned true and none of whose hooks appended an
\* error message during the run, after run() isPassed() is true and the
\* error-message sequence is empty.
C8_CleanRunPasses ==
    (JustReturned /\ getSubTestCount = 0 /\ NoHookErrors
        /\ Returned("setUp", -1, TRUE) /\ Returned("testMethod", -1, TRUE))
        => (isPassed /\ sErrorMessages = <<>>)

\* C8 witness: such a run has returned
C8_Witness ==
    /\ JustReturned /\ getSubTestCount = 0 /\ NoHookErrors
    /\ Returned("setUp", -1, TRUE) /\ Returned("testMethod", -1, TRUE)

\* C9 as stated: run() returns true if and only if the root setUp()
\* succeeded, testMethod() returned true, and every registered subtest had a
\* successful setUp() and returned true.
C9_Original == JustReturned => (retVal <=> AllSucceeded)

\* C9 amended: run() returns true if and only if the root setUp() succeeded,
\* testMethod() returned true, every registered subtest had a successful
\* setUp() and returned true, and no hook appended an error message during
\* the run.
C9_RunReturnsTrueIffAllSucceeded ==
    JustReturned => (retVal <=> (AllSucceeded /\ NoHookErrors))

\* C9 witness: run() returned true for a case with subtests
C9_Witness == JustReturned /\ retVal /\ getSubTestCount >= 2

\* C10: the value returned by run() equals isPassed() queried immediately
\* after run() returns, also when finalize() or tearDown() appended error
\* messages.
C10_ReturnEqualsIsPassed == JustReturned => (retVal = isPassed)

\* C10 witness: run() returned false only because finalize() appended an
\* error message
C10_Witness ==
    /\ JustReturned
    /\ AllSucceeded
    /\ Len(sErrorMessages) = 1
    /\ calls[Len(calls)].hook = "finalize"
    /\ calls[Len(calls)].eff = "assertFail"

\* the setUp(), tearDown() and finalize() invocations of the current run
IsSetUpTearDownFinalize(e) == e.hook \in {"setUp", "tearDown", "finalize"}

SetUpTearDownFinalize == SelectSeq(calls, IsSetUpTearDownFinalize)

\* C11: within a run(), every setUp() invocation (main or subtest) is
\* followed by exactly one tearDown() invocation before any further setUp()
\* or finalize(), whether setUp() returned true or false and whether the
\* test or subtest returned true, false, or was skipped.
C11_SetUpPairedWithTearDown ==
    LET s == SetUpTearDownFinalize IN
    \A k \in 1..Len(s) :
        /\ s[k].hook = "setUp" =>
              /\ k < Len(s) => (s[k + 1].hook = "tearDown" /\ s[k + 1].at = s[k].at)
              /\ k = Len(s) => pc \in {"testMethod", "tearDown", "subTest", "subTearDown"}
        /\ s[k].hook = "tearDown" => (k > 1 /\ s[k - 1].hook = "setUp")

\* C11 witness: a run has returned in which testMethod() returned false, the
\* first subtest was skipped by its setUp() and the second subtest passed
C11_Witness ==
    /\ JustReturned
    /\ Returned("testMethod", -1, FALSE)
    /\ Returned("setUp", 0, FALSE)
    /\ Returned("subTest", 1, TRUE)
    /\ Len(SetUpTearDownFinalize) = 7

\* the hooks run() calls once per phase
PhaseHooks == {"preSetUp", "setUp", "testMethod", "subTest", "tearDown", "postTearDown"}

\* C12: subtests are executed in registration order: for i < j the setUp(),
\* callable and tearDown() of subtest i all complete before the setUp() of
\* subtest j is invoked, and the whole main phase (setUp, testMethod,
\* tearDown) completes before the first subtest's setUp().
C12_RegistrationOrder ==
    \A l \in 1..Len(calls) :
        calls[l].hook \in PhaseHooks =>
            /\ calls[l].at >= 0 => calls[l].func = tSubTests[calls[l].at + 1][1]
            /\ \A k \in 1..(l - 1) :
                  calls[k].hook \in PhaseHooks => calls[k].at <= calls[l].at
            /\ calls[l].hook = "setUp" =>
                  \A a \in -1..(calls[l].at - 1) :
                      \E k \in 1..(l - 1) :
                          calls[k].hook = "tearDown" /\ calls[k].at = a

\* C12 witness: a run has returned in which the callables of two subtests
\* were both invoked
C12_Witness ==
    /\ JustReturned
    /\ CallsOf("subTest", 0) # {}
    /\ CallsOf("subTest", 1) # {}
    /\ tSubTests[1][1] # tSubTests[2][1]

(***************************************************************************)
(* Queries on the history of the store.                                    *)
(***************************************************************************)
\* number, sum, least and largest of the durations counted in c
RECURSIVE ClosedCount(_, _)
ClosedCount(c, ds) ==
    IF ds = {} THEN 0
    ELSE LET d == CHOOSE x \in ds : TRUE IN c[d] + ClosedCount(c, ds \ {d})

RECURSIVE ClosedSum(_, _)
ClosedSum(c, ds) ==
    IF ds = {} THEN 0
    ELSE LET d == CHOOSE x \in ds : TRUE IN d * c[d] + ClosedSum(c, ds \ {d})

ClosedMin(c) == CHOOSE d \in Samples : c[d] > 0 /\ \A e \in Samples : c[e] > 0 => d <= e

ClosedMax(c) == CHOOSE d \in Samples : c[d] > 0 /\ \A e \in Samples : c[e] > 0 => d >= e

\* since the last clear()/resetAll() (or the start of the program) k >= 1
\* timers of hash were constructed, all of them are destroyed, and no
\* timer of hash constructed earlier was destroyed
AllOpenedAndClosed(hash) ==
    /\ hist[hash].opened >= 1
    /\ timers[hash].fresh = 0
    /\ hist[hash].stale = 0

\* minimum <= average <= maximum
MinAvgMax(bm) ==
    /\ getAverageDuration_GE(bm, bm.m_durationsMin)
    /\ getAverageDuration_LE(bm, bm.m_durationsMax)

\* C13: if K scoped timers for one label have all been opened and closed
\* (sequentially, nested or overlapping) with no clear()/resetAll() in
\* between, the record of the label has iterations = K, total = the sum of
\* the K elapsed samples, min = the smallest and max = the largest sample,
\* hence min <= average <= max.
C13_KTimersOpenedAndClosed ==
    \A hash \in Hashes :
        AllOpenedAndClosed(hash) =>
            /\ hash \in DOMAIN getAllData
            /\ LET bm == getAllData[hash]
                   c == hist[hash].closed
               IN  /\ ClosedCount(c, Samples) = hist[hash].opened
                   /\ bm.m_iterations = hist[hash].opened
                   /\ bm.m_durationsTotal = ClosedSum(c, Samples)
                   /\ bm.m_durationsMin = ClosedMin(c)
                   /\ bm.m_durationsMax = ClosedMax(c)
                   /\ MinAvgMax(bm)

\* C13 witness: three timers of one label were opened and closed, with
\* different durations
C13_Witness ==
    LET hash == calcHash("a") IN
    /\ AllOpenedAndClosed(hash)
    /\ hist[hash].opened = 3
    /\ ClosedMin(hist[hash].closed) < ClosedMax(hist[hash].closed)
    /\ getAllData[hash].m_iterations = 3

\* C14 as stated: in every reachable state of the timing store, every record
\* with iterations > 0 satisfies min <= average <= max, including states in
\* which a timer for that label has been constructed but not yet closed.
C14_Original ==
    \A hash \in DOMAIN getAllData :
        getAllData[hash].m_iterations > 0 => MinAvgMax(getAllData[hash])

\* C14 amended: in every reachable state of the timing store, every record
\* with iterations > 0 satisfies min <= average <= max, provided that every
\* timer of the label constructed since the last clear()/resetAll() has been
\* closed and no timer of the label constructed before that clear()/
\* resetAll() was closed after it.
C14_MinAvgMaxWhenAllClosed ==
    \A hash \in DOMAIN getAllData :
        (getAllData[hash].m_iterations > 0
            /\ timers[hash].fresh = 0 /\ hist[hash].stale = 0)
        => MinAvgMax(getAllData[hash])

\* C14 witness: a record with two iterations and two different durations
\* while a timer of another label is open
C14_Witness ==
    \E hash \in DOMAIN getAllData, other \in Hashes :
        /\ getAllData[hash].m_iterations = 2
        /\ timers[hash].fresh = 0 /\ hist[hash].stale = 0
        /\ getAllData[hash].m_durationsMin < getAllData[hash].m_durationsMax
        /\ other # hash /\ timers[other].fresh > 0

\* the step is the store operation op
StepOp(op) == opsLeft' = opsLeft - 1 /\ lastOp'.op = op

\* the hash the operation of the step is about
StepHash == calcHash(lastOp'.name)

\* the timer destroyed by the step was alive at the last clear()/resetAll()
StaleTimerClosed == timers'[StepHash].stale < timers[StepHash].stale

\* iteration count of hash as getAllData() shows it (0: no record)
Iterations(st, hash) == IF hash \in DOMAIN st THEN st[hash].m_iterations ELSE 0

\* no record is removed or changed by the step
RecordsKept == \A hash \in DOMAIN store : hash \in DOMAIN store' /\ store'[hash] = store[hash]

\* C17 as stated: a record is created only by the construction of a scoped
\* timer for a not-yet-seen label, and once created it stays in the store
\* until clear(): no lookup (getDataByName()/getDataByNameHash()), no timer
\* closure and no resetAll() adds or removes a record.
C17_Original ==
    [][ /\ StepOp("ctor") => DOMAIN store \subseteq DOMAIN store'
        /\ StepOp("getDataByName") => DOMAIN store' = DOMAIN store
        /\ StepOp("dtor") => DOMAIN store' = DOMAIN store
        /\ StepOp("resetAll") => DOMAIN store' = DOMAIN store ]_vars

\* C17 amended: a record is created by the construction of a scoped timer
\* for a not-yet-seen label, by a lookup of a not-yet-seen label (which
\* inserts a default record), or by the closure of a timer that was open
\* when clear() removed its record; once created it stays in the store until
\* clear(): no lookup, no timer closure and no resetAll() removes a record,
\* and resetAll() adds none.
C17_RecordCreationAndRemoval ==
    [][ /\ StepOp("ctor") =>
              DOMAIN store' = IF lastOp'.threw = "none"
                              THEN DOMAIN store \cup {StepHash} ELSE DOMAIN store
        /\ StepOp("getDataByName") =>
              /\ DOMAIN store' = DOMAIN store \cup {StepHash}
              /\ RecordsKept
              /\ StepHash \notin DOMAIN store => store'[StepHash] = BmData
        /\ StepOp("dtor") =>
              /\ DOMAIN store' = DOMAIN store \cup {StepHash}
              /\ StepHash \notin DOMAIN store => StaleTimerClosed
        /\ StepOp("resetAll") => DOMAIN store' = DOMAIN store
        /\ StepOp("clear") => DOMAIN store' = {} ]_vars

\* C17 witness: a lookup of a label never timed has left a default record
\* next to the record of a timed label
C17_Witness ==
    /\ lastOp.op = "getDataByName"
    /\ calcHash(lastOp.name) \in DOMAIN getAllData
    /\ getAllData[calcHash(lastOp.name)] = BmData
    /\ \E hash \in DOMAIN getAllData : getAllData[hash].m_iterations > 0

\* the iteration counts of all hashes other than that of the step are
\* unchanged
OtherIterationsKept ==
    \A hash \in Hashes \ {StepHash} : Iterations(store', hash) = Iterations(store, hash)

\* C18 as stated: a label's iteration count increases by exactly one per
\* scoped-timer closure for that label (and is changed by nothing else
\* except clear()/resetAll()).
C18_Original ==
    [][ /\ StepOp("dtor") =>
              /\ Iterations(store', StepHash) = Iterations(store, StepHash) + 1
              /\ OtherIterationsKept
        /\ (StepOp("ctor") \/ StepOp("getDataByName")) =>
              \A hash \in Hashes : Iterations(store', hash) = Iterations(store, hash) ]_vars

\* C18 amended: a label's iteration count increases by exactly one per
\* successful scoped-timer construction for that label; a closure, a lookup
\* and a construction that fails for an empty label leave every iteration
\* count unchanged, and nothing else changes it except clear()/resetAll().
C18_IterationsCountConstructions ==
    [][ /\ (StepOp("ctor") /\ lastOp'.threw = "none") =>
              /\ Iterations(store', StepHash) = Iterations(store, StepHash) + 1
              /\ OtherIterationsKept
        /\ ((StepOp("ctor") /\ lastOp'.name = "")
                \/ StepOp("dtor") \/ StepOp("getDataByName")) =>
              \A hash \in Hashes : Iterations(store', hash) = Iterations(store, hash) ]_vars

\* C18 witness: the second of two nested timers of one label has been
\* closed, the first one is still open, and the record shows two iterations
C18_Witness ==
    /\ lastOp.op = "dtor"
    /\ LET hash == calcHash(lastOp.name) IN
          /\ hist[hash].opened = 2
          /\ timers[hash].fresh = 1
          /\ getAllData[hash].m_iterations = 2

\* C19: constructing a scoped timer with an empty label fails with an error
\* reported to the caller and leaves the store unchanged (no record is
\* created, no counter is touched).
C19_EmptyLabelRejected ==
    [][ (StepOp("ctor") /\ lastOp'.name = "") =>
            /\ lastOp'.threw = "name cannot be empty"
            /\ store' = store
            /\ timers' = timers ]_vars

\* C19 witness: the construction with an empty label has failed while the
\* store held a record and a timer was open
C19_Witness ==
    /\ lastOp.op = "ctor"
    /\ lastOp.name = ""
    /\ lastOp.threw # "none"
    /\ \E hash \in DOMAIN getAllData :
          getAllData[hash].m_iterations > 0 /\ timers[hash].fresh > 0

\* the record a first constructor call leaves for name
FirstRecord(name) ==
    [BmData EXCEPT !.m_name = name, !.m_iterations = 1, !.m_ratioDenominator = period_den]

\* C20: after clear(), getAllData() is empty whatever it held before; the
\* next scoped timer constructed for any label (including one that existed
\* before the clear) creates that label's record anew with iteration
\* count 1.
C20_ClearThenConstruct ==
    [][ /\ StepOp("clear") => getAllData' = EmptyStore
        /\ (lastOp.op = "clear" /\ StepOp("ctor") /\ lastOp'.threw = "none") =>
              /\ DOMAIN store' = {StepHash}
              /\ store'[StepHash] = FirstRecord(lastOp'.name)
        /\ (StepOp("ctor") /\ lastOp'.threw = "none" /\ hist[StepHash].opened = 0) =>
              store'[StepHash].m_iterations = 1 ]_vars

\* C20 witness: clear() removed the records of two labels whose timers were
\* open, and a timer constructed afterwards for one of them has created the
\* record with iteration count 1
C20_Witness ==
    /\ lastOp.op = "ctor"
    /\ lastOp.threw = "none"
    /\ \A hash \in Hashes : timers[hash].stale > 0
    /\ DOMAIN getAllData = {calcHash(lastOp.name)}
    /\ getAllData[calcHash(lastOp.name)] = FirstRecord(lastOp.name)

(***************************************************************************)
(* Queries on a Benchmark run.                                             *)
(***************************************************************************)
\* run() is between the initBenchmarkers() and the printBenchmarkers() of
\* one phase
InPhase ==
    pc \in {"setUp", "testMethod", "tearDown", "postTearDown",
            "subSetUp", "subTest", "subTearDown", "subPostTearDown"}

\* a setUp() of the run is about to execute its first statement
SetUpBegins == pc \in {"setUp", "subSetUp"} /\ lastOp.op = "initBenchmarkers"

\* printBenchmarkers() has just returned
JustReported == lastOp.op = "printBenchmarkers"

\* hashes the code of the current phase has operated on with one of ops
PhaseHashes(ops) == {e[2] : e \in {x \in phaseOps : x[1] \in ops}}

\* the step is a printBenchmarkers() call of run()
PrintStep == pc \in {"postTearDown", "subPostTearDown"} /\ pc' # pc

\* the info messages the step has appended
Appended == SubSeq(sInfoMessages', Len(sInfoMessages) + 1, Len(sInfoMessages'))

\* the hashes of the per-label lines among the messages ms
ReportedHashes(ms) == {ms[k].name[1] : k \in {j \in 1..Len(ms) : ms[j].kind = "bmData"}}

\* C15: the timing store is empty at the moment every setUp() of a Benchmark
\* run begins (main phase and each subtest phase) and is empty again
\* immediately after every post-phase timing report, so records produced in
\* one phase are never present in the store during another phase.
C15_StoreEmptyAroundPhases ==
    /\ SetUpBegins => getAllData = EmptyStore
    /\ JustReported => getAllData = EmptyStore
    /\ InPhase =>
          DOMAIN getAllData \subseteq PhaseHashes({"ctor", "dtor", "getDataByName"})

\* C15 witness: the setUp() of a subtest begins after the main phase has
\* reported a label, while the timer of that label is still open
C15_Witness ==
    /\ SetUpBegins
    /\ pc = "subSetUp"
    /\ \E k \in 1..Len(sInfoMessages) :
          /\ sInfoMessages[k].kind = "bmData"
          /\ sInfoMessages[k].at = -1
          /\ timers[sInfoMessages[k].name[1]].stale > 0

\* what every report does: messages are appended exactly when the store is
\* not empty, a header line and one line per record
ReportShape ==
    /\ (Appended # <<>>) <=> (store # EmptyStore)
    /\ store # EmptyStore =>
          /\ Len(Appended) = 1 + Cardinality(DOMAIN store)
          /\ Appended[1].kind = "bmHeader"
          /\ \A k \in 2..Len(Appended) :
                /\ Appended[k].kind = "bmData"
                /\ Appended[k].name[2] = store[Appended[k].name[1]]
          /\ ReportedHashes(Appended) = DOMAIN store
    /\ \A k \in 1..Len(Appended) : Appended[k].at = At

\* C16 as stated: the post-phase report appends timing info messages exactly
\* when the store is non-empty, one message per distinct label in the store
\* (besides one header line), and only for labels timed during that same
\* phase (between that phase's pre-phase clear and its report); a label
\* timed only in an earlier phase, subtest or test case never appears in a
\* later report, and no info message is appended when nothing was timed.
C16_Original ==
    [][ PrintStep =>
            /\ ReportShape
            /\ ReportedHashes(Appended) \subseteq PhaseHashes({"ctor", "dtor"})
            /\ PhaseHashes({"ctor", "dtor"}) = {} => Appended = <<>> ]_vars

\* C16 amended: the post-phase report appends timing info messages exactly
\* when the store is non-empty, one message per record in the store (besides
\* one header line), and only for labels for which, during that same phase,
\* a scoped timer was constructed or closed or a lookup was made; a label
\* touched only in an earlier phase, subtest or test case never appears in a
\* later report, and no info message is appended when the code of the phase
\* has neither timed nor looked up anything.
C16_ReportOfThePhase ==
    [][ PrintStep =>
            /\ ReportShape
            /\ ReportedHashes(Appended)
                  \subseteq PhaseHashes({"ctor", "dtor", "getDataByName"})
            /\ PhaseHashes({"ctor", "dtor", "getDataByName"}) = {} => Appended = <<>> ]_vars

\* C16 witness: the report of a subtest phase has a line for the label timed
\* in that phase and none for the label reported by the main phase
C16_Witness ==
    /\ JustReported
    /\ \E k, l \in 1..Len(sInfoMessages) :
          /\ sInfoMessages[k].kind = "bmData" /\ sInfoMessages[k].at = -1
          /\ sInfoMessages[l].kind = "bmData" /\ sInfoMessages[l].at = 0
          /\ sInfoMessages[k].name[1] # sInfoMessages[l].name[1]
          /\ sInfoMessages[l].name[2].m_iterations = 1
    /\ Cardinality({k \in 1..Len(sInfoMessages) : sInfoMessages[k].kind = "bmData"}) = 2

\* C21: resetAll() sets total, minimum, maximum and iterations of every
\* record back to their default values (total 0, min = the infinity
\* sentinel, max 0, iterations 0) and leaves unchanged the set of labels
\* present in the store and each record's label name and resolution
\* denominator.
C21_ResetAllZeroesAndKeeps ==
    [][ StepOp("resetAll") =>
            /\ DOMAIN getAllData' = DOMAIN getAllData
            /\ \A hash \in DOMAIN getAllData :
                  getAllData'[hash] =
                      [BmData EXCEPT
                          !.m_name = getAllData[hash].m_name,
                          !.m_ratioDenominator = getAllData[hash].m_ratioDenominator] ]_vars

\* C21 witness: resetAll() has reset the records of two labels, one made by
\* a timer that is still open and one made by a lookup
C21_Witness ==
    /\ lastOp.op = "resetAll"
    /\ Cardinality(DOMAIN getAllData) = 2
    /\ \E hash \in DOMAIN getAllData :
          /\ getAllData[hash].m_iterations = 0
          /\ getAllData[hash].m_name = hash[2]
          /\ getAllData[hash].m_ratioDenominator = period_den
          /\ timers[hash].stale > 0
    /\ \E hash \in DOMAIN getAllData : getAllData[hash] = BmData

\* C22: looking up a record by label (getDataByName) returns the existing
\* record unchanged when the label is known, and otherwise inserts and
\* returns a new record with default values (total 0, min = the infinity
\* sentinel, max 0, iterations 0), growing the store by exactly one entry
\* and leaving all other records unchanged.  The record returned is the
\* entry of the label in the map after the call.
C22_LookupFindsOrInserts ==
    [][ StepOp("getDataByName") =>
            /\ RecordsKept
            /\ StepHash \in DOMAIN getAllData'
            /\ IF StepHash \in DOMAIN getAllData
               THEN getAllData' = getAllData
               ELSE /\ getAllData'[StepHash] = BmData
                    /\ getAllData'[StepHash].m_durationsTotal = 0
                    /\ getAllData'[StepHash].m_durationsMin = LLONG_MAX
                    /\ getAllData'[StepHash].m_durationsMax = 0
                    /\ getAllData'[StepHash].m_iterations = 0
                    /\ DOMAIN getAllData' = DOMAIN getAllData \cup {StepHash}
                    /\ Cardinality(DOMAIN getAllData') = Cardinality(DOMAIN getAllData) + 1 ]_vars

\* C22 witness: a lookup has returned the record of a timed label, with its
\* statistics, while the store also holds a record a lookup inserted
C22_Witness ==
    /\ lastOp.op = "getDataByName"
    /\ LET hash == calcHash(lastOp.name) IN
          /\ hash \in DOMAIN getAllData
          /\ getAllData[hash].m_iterations > 0
          /\ getAllData[hash].m_durationsTotal > 0
          /\ \E other \in DOMAIN getAllData : other # hash /\ getAllData[other] = BmData

\* the record a timer of this hash works on: the one in the map, or the
\* default one operator[] makes when the map has none
RecordOf(st, hash) == IF hash \in DOMAIN st THEN st[hash] ELSE BmData

\* C23: closing a scoped timer never produces an error outcome: whenever a
\* timer is closed, also one that was open across clear() or resetAll(),
\* the closure completes, adds the sample to the total of the record of its
\* label and updates the minimum and the maximum, and the total it leaves
\* is not negative (the samples being non-negative and the sum in range).
C23_ClosureNeverFails ==
    [][ StepOp("dtor") =>
            LET old == RecordOf(getAllData, StepHash)
                new == getAllData'[StepHash]
                d == lastOp'.d
            IN  /\ lastOp'.threw = "none"
                /\ StepHash \in DOMAIN getAllData'
                /\ new.m_durationsTotal = old.m_durationsTotal + d
                /\ new.m_durationsMin = IF d < old.m_durationsMin THEN d ELSE old.m_durationsMin
                /\ new.m_durationsMax = IF d > old.m_durationsMax THEN d ELSE old.m_durationsMax
                /\ new.m_durationsTotal >= 0
                /\ new.m_durationsTotal <= LLONG_MAX ]_vars

\* C23 witness: a timer that was open when clear() ran has been closed with
\* a positive sample; the record was made anew by the closure
C23_Witness ==
    /\ lastOp.op = "dtor"
    /\ lastOp.threw = "none"
    /\ lastOp.d > 0
    /\ LET hash == calcHash(lastOp.name) IN
          /\ hist[hash].stale > 0
          /\ hist[hash].opened = 0
          /\ getAllData[hash].m_iterations = 0
          /\ getAllData[hash].m_name = ""
          /\ getAllData[hash].m_durationsTotal = lastOp.d
          /\ getAllData[hash].m_durationsMin = lastOp.d
          /\ getAllData[hash].m_durationsMax = lastOp.d

\* the step constructs a timer for a label whose counter is at LLONG_MAX
CounterWraps ==
    /\ StepOp("ctor")
    /\ lastOp'.name # ""
    /\ Iterations(getAllData, StepHash) = LLONG_MAX

\* C24: constructing a scoped timer for a label whose iteration counter
\* would wrap on increment fails with an overflow error surfaced to the
\* constructing caller (the exception "m_iterations overflew", no timer
\* constructed), rather than silently continuing with a wrapped counter.
C24_OverflowSurfaced ==
    [][ CounterWraps =>
            /\ lastOp'.threw = "m_iterations overflew"
            /\ timers' = timers ]_vars

\* C25: between two consecutive clear()/resetAll() calls a record's total
\* never decreases across any sequence of scoped-timer constructions and
\* closures, every measured sample being non-negative: no construction and
\* no closure removes a record or lowers its total, and a record made by
\* one starts with a total that is not negative.
C25_TotalNeverDecreases ==
    [][ (StepOp("ctor") \/ StepOp("dtor")) =>
            /\ \A hash \in DOMAIN getAllData :
                  /\ hash \in DOMAIN getAllData'
                  /\ getAllData'[hash].m_durationsTotal >= getAllData[hash].m_durationsTotal
            /\ \A hash \in DOMAIN getAllData' :
                  getAllData'[hash].m_durationsTotal >= RecordOf(getAllData, hash).m_durationsTotal ]_vars

\* C25 witness: since the last reset two timers of a label were constructed
\* and closed with positive samples, the second closure raising the total
\* above the sample it measured
C25_Witness ==
    /\ lastOp.op = "dtor"
    /\ lastOp.d > 0
    /\ LET hash == calcHash(lastOp.name) IN
          /\ hist[hash].opened = 2
          /\ hist[hash].stale = 0
          /\ timers[hash].fresh = 0
          /\ hist[hash].closed[0] = 0
          /\ getAllData[hash].m_iterations = 2
          /\ getAllData[hash].m_durationsTotal > lastOp.d

\* the positions in calls of the invocations of hook, whatever the phase
HookCalls(hook) == {k \in 1..Len(calls) : calls[k].hook = hook}

\* C26: within every run(), initialize() is invoked exactly once and before
\* any preSetUp()/setUp(), and finalize() is invoked exactly once and after
\* the last tearDown()/postTearDown(), on every path (setUp() failing or
\* not, with or without subtests): the first hook run() calls is
\* initialize(), the last one is finalize(), and neither is called again.
C26_InitializeFirstFinalizeLast ==
    /\ runs = 0 => calls = <<>>
    /\ pc = "initialize" => calls = <<>>
    /\ runs >= 1 /\ pc # "initialize" =>
          /\ HookCalls("initialize") = {1}
          /\ LET finalized == HookCalls("finalize")
             IN  /\ finalized \subseteq {Len(calls)}
                 /\ (finalized # {}) <=> AfterRun
                 /\ AfterRun => finalized = {Len(calls)}
    /\ AfterRun =>
          /\ calls[Len(calls) - 1].hook = "postTearDown"
          /\ calls[Len(calls) - 2].hook = "tearDown"

\* C26 witness: the second run() of an object has returned; testMethod()
\* failed, the setUp() of the first subtest failed and the second subtest
\* failed
C26_Witness ==
    /\ JustReturned
    /\ runs = 2
    /\ Returned("testMethod", -1, FALSE)
    /\ Returned("setUp", 0, FALSE)
    /\ Returned("subTest", 1, FALSE)
    /\ calls[1].hook = "initialize"
    /\ calls[Len(calls)].hook = "finalize"
    /\ Cardinality(HookCalls("postTearDown")) = 3

InSubTestLoop ==
    pc \in {"subPreSetUp", "subSetUp", "subTest", "subTearDown", "subPostTearDown"}

\* C28: isSubTestRunning() is true during exactly the subtest loop of run()
\* (any subtest's preSetUp, setUp, callable, tearDown and postTearDown),
\* and false during initialize(), the main phase, finalize(), before the
\* first run() and after run() has returned.
C28_SubTestRunningExactlyInLoop ==
    /\ isSubTestRunning <=> InSubTestLoop
    /\ pc \in {"idle", "done", "initialize", "preSetUp", "setUp", "testMethod",
               "tearDown", "postTearDown", "finalize"} => ~isSubTestRunning

\* C28 witness: the tearDown() of the second subtest, which was skipped, is
\* about to run in the second run()
C28_Witness ==
    /\ pc = "subTearDown"
    /\ isSubTestRunning
    /\ i = 1
    /\ runs = 2
    /\ Returned("setUp", 1, FALSE)

\* C29: calling getCurrentSubTestName() while no subtest is active is
\* detected as a contract violation and fails fast (assertion failure or
\* raised error) instead of returning normally.
C29_NameOutsideSubTestFailsFast ==
    ~isSubTestRunning =>
        \A o \in getCurrentSubTestName : o.outcome \in {"assertion failed", "exception"}

\* the object an assertion is called on
This ==
    [ bTestRan |-> bTestRan,
      sErrorMessages |-> sErrorMessages,
      sInfoMessages |-> sInfoMessages,
      tSubTests |-> tSubTests,
      iCurrentSubTest |-> iCurrentSubTest,
      bWeAreInSubTest |-> bWeAreInSubTest,
      nSucceededSubTests |-> nSucceededSubTests ]

\* r is what an assertion made of this: it returned holds, appended m at the
\* end of the error messages when holds is false and nothing otherwise, and
\* left every other member of the object (the info messages, the subtest
\* list, the passed-subtest count, the has-run flag, ...) as it was
AssertionOutcome(r, this, holds, m) ==
    /\ r.ret = holds
    /\ r.this = [this EXCEPT !.sErrorMessages = IF holds THEN @ ELSE @ \o <<m>>]

\* the positions in calls of the hooks whose assertion failed
FailedAssertions == {k \in 1..Len(calls) : calls[k].eff = "assertFail"}

\* C30: every assertion call (assertTrue, assertFalse, assertEquals, ...)
\* returns whether the checked relation holds; when it holds nothing is
\* appended, when it fails exactly one message is appended to the end of
\* the error messages; in both cases the run continues and the info
\* messages, the subtest list, the passed-subtest count and the has-run
\* flag are unchanged.  Stated for a call in any reachable state of the
\* object, inside or outside run(); for the calls the hooks made: one
\* message each, and run() went on to its next step.
C30_AssertionReportsAndContinues ==
    LET m == Msg("assert", "", At)
        this == This
    IN
    /\ \A statement \in BOOLEAN :
          /\ AssertionOutcome(Test_assertTrue(this, statement, m), this, statement, m)
          /\ AssertionOutcome(assertFalse(this, statement, m), this, ~statement, m)
    /\ \A expected \in BOOLEAN, checked \in BOOLEAN :
          /\ AssertionOutcome(assertEquals(this, expected, checked, m), this,
                              expected = checked, m)
          /\ AssertionOutcome(assertNotEquals(this, expected, checked, m), this,
                              expected # checked, m)
    /\ LET failed == FailedAssertions
           reported == {k \in 1..Len(sErrorMessages) : sErrorMessages[k].kind = "assert"}
       IN  /\ \A at \in {-1} \cup SubIndexes :
                 Cardinality({k \in reported : sErrorMessages[k].at = at})
                     = Cardinality({k \in failed : calls[k].at = at})
           /\ \A k \in failed :
                 /\ calls[k].hook # "finalize" /\ k = Len(calls) => pc \notin {"idle", "done"}
                 /\ calls[k].hook = "setUp" /\ calls[k].ret /\ k < Len(calls) =>
                       calls[k + 1].hook \in {"testMethod", "subTest"}

\* C30 witness: run() has returned; an assertion failed in the setUp() of
\* the first subtest, which returned true, the subtest ran and passed and
\* was counted, and the failed assertion is the only error message
C30_Witness ==
    /\ JustReturned
    /\ \E k \in FailedAssertions :
          /\ calls[k].hook = "setUp"
          /\ calls[k].at = 0
          /\ calls[k].ret
          /\ k < Len(calls)
    /\ Returned("subTest", 0, TRUE)
    /\ getPassedSubTestCount >= 1
    /\ Len(sErrorMessages) = 1
    /\ sErrorMessages[1].kind = "assert"
    /\ ~retVal

\* the registration passes a callable
IsCallable(reg) == reg[2] # NULL

\* the (callable, name) pairs of the registrations regs that pass a callable
Pairs(regs) ==
    LET kept == SelectSeq(regs, IsCallable)
    IN  [k \in 1..Len(kept) |-> <<kept[k][2], kept[k][1]>>]

\* the step is the call of initialize(), in which the class registers
InitializeStep == pc = "initialize" /\ pc' = "preSetUp"

\* C31: addSubTest() with a null callable is a no-op: the subtest sequence,
\* getSubTestCount() and all other state are unchanged and no error is
\* recorded; with a non-null callable it appends exactly one (callable,
\* name) pair at the end of the sequence.  Stated for one call on the
\* object initialize() finds, and for the calls initialize() makes: the
\* pairs of its non-null registrations are appended in call order, and the
\* only error message the step can add is the one of a failed assertion.
C31_AddSubTestAppendsUnlessNull ==
    [][ InitializeStep =>
            LET this == This
                e == calls'[Len(calls')]
            IN  /\ \A subTestName \in {"testA", "testNull"} :
                      /\ Test_addSubTest(this, subTestName, NULL) = this
                      /\ Test_addSubTest(this, subTestName, "testB")
                            = [this EXCEPT !.tSubTests = @ \o << <<"testB", subTestName>> >>]
                /\ tSubTests' = tSubTests \o Pairs(initRegs)
                /\ getSubTestCount' = getSubTestCount + Len(Pairs(initRegs))
                /\ sErrorMessages' =
                      IF e.eff = "assertFail"
                      THEN sErrorMessages \o <<Msg("assert", "", -1)>>
                      ELSE sErrorMessages
                /\ UNCHANGED <<bTestRan, sInfoMessages, nSucceededSubTests,
                               iCurrentSubTest, bWeAreInSubTest>> ]_vars

\* C31 witness: initialize() has called addSubTest() with a null callable
\* and then with testB, on an object whose constructor registered testA
C31_Witness ==
    /\ pc = "preSetUp"
    /\ runs = 1
    /\ Len(initRegs) = 2
    /\ initRegs[1][2] = NULL
    /\ tSubTests = << <<"testA", "testA">>, <<"testB", "testB">> >>
    /\ sErrorMessages = <<>>

\* the characters that separate the components of a path
Separators == {"\\", "/"}

\* the final component of a path: what follows its last separator
FinalComponent(path) ==
    LET seps == {k \in 1..Len(path) : path[k] \in Separators}
    IN  IF seps = {} THEN path
        ELSE SubSeq(path, (CHOOSE k \in seps : \A l \in seps : l <= k) + 1, Len(path))

\* C32: the constructor retains as getFile() only the final path component
\* of the originating-file argument (for paths using '\' or '/' as
\* separator), and getName() is the placeholder "Unnamed Test" exactly when
\* both the name and the file arguments are empty, and the supplied name
\* otherwise.
C32_FileIsFinalComponent ==
    pc # "ctor" =>
        /\ getFile = FinalComponent(ctorArgs.testFile)
        /\ getName = IF ctorArgs.testName = "" /\ ctorArgs.testFile = <<>>
                     THEN "Unnamed Test" ELSE ctorArgs.testName

\* C33: postTearDown() is invoked by run() right before any call to
\* tearDown(): whenever run() calls tearDown(), the call it made just
\* before is postTearDown(), and after calling postTearDown() the next
\* thing run() does is call tearDown().
C33_PostTearDownBeforeTearDown ==
    [][ Len(calls') = Len(calls) + 1 =>
            LET e == calls'[Len(calls')]
            IN  /\ e.hook = "tearDown" =>
                      /\ calls # <<>>
                      /\ calls[Len(calls)].hook = "postTearDown"
                /\ e.hook = "postTearDown" => pc' \in {"tearDown", "subTearDown"} ]_vars

\* the subtests the loop of the last run() reached: their setUp() was called
VisitedSubTests == {j \in SubIndexes : CallsOf("setUp", j) # {}}

\* the subtests of the last run() whose setUp() succeeded and whose callable
\* returned true
PassedSubTests ==
    {j \in VisitedSubTests : Returned("setUp", j, TRUE) /\ Returned("subTest", j, TRUE)}

\* the "<name> failed!" and "<name> SKIPPED due to setUp() failed!" messages
\* of subtest j
LifecycleErrors(j) == ErrorsOf("subFailed", j) \cup ErrorsOf("skipped", j)

\* C34: after any run(), getPassedSubTestCount() equals the number of
\* subtests whose setUp() succeeded and whose callable returned true in
\* that run; every other subtest the loop executed or skipped contributed
\* exactly one "failed!" or "SKIPPED due to setUp() failed!" error message
\* (and a passed one none); 0 <= getPassedSubTestCount() <=
\* getSubTestCount() in every reachable state.
C34_PassedCountMatchesOutcomes ==
    /\ 0 <= getPassedSubTestCount
    /\ getPassedSubTestCount <= getSubTestCount
    /\ AfterRun =>
          /\ getPassedSubTestCount = Cardinality(PassedSubTests)
          /\ \A j \in VisitedSubTests :
                Cardinality(LifecycleErrors(j)) = IF j \in PassedSubTests THEN 0 ELSE 1

\* C34 witness: run() has returned after a subtest whose callable returned
\* false and a subtest that passed
C34_Witness ==
    /\ JustReturned
    /\ Returned("subTest", 0, FALSE)
    /\ Returned("subTest", 1, TRUE)
    /\ getPassedSubTestCount = 1
    /\ Cardinality(ErrorsOf("subFailed", 0)) = 1

(***************************************************************************)
(* Termination of run().  run() is straight-line code around one loop: once *)
(* it has been entered, the thread executing it takes its next statement   *)
(* whenever the hook it called has returned.  The owner is not obliged to  *)
(* call run() or to use the object between runs.                           *)
(***************************************************************************)
\* one statement of run() after its entry
RunStep ==
    \/ Initialize
    \/ PreSetUp
    \/ SetUp
    \/ TestMethod
    \/ TearDown
    \/ PostTearDown
    \/ SubPreSetUp
    \/ SubSetUp
    \/ SubTest
    \/ SubTearDown
    \/ SubPostTearDown
    \/ Finalize

LiveSpec == Spec /\ WF_vars(RunStep)

\* run() is executing
RunExecuting == pc \notin {"idle", "done", "ctor"}

\* the numbers of setUp(), tearDown() and testMethod() invocations of a
\* run() that has returned, N being the number of registered subtests
HookCountsOfRun ==
    LET N == getSubTestCount
        rootOk == Returned("setUp", -1, TRUE)
    IN  /\ Cardinality(HookCalls("setUp")) = IF rootOk THEN 1 + N ELSE 1
        /\ Cardinality(HookCalls("tearDown")) = IF rootOk THEN 1 + N ELSE 1
        /\ Cardinality(HookCalls("testMethod")) = IF rootOk THEN 1 ELSE 0
        /\ HookCalls("testMethod") = CallsOf("testMethod", -1)

IsPrefix(s, t) == Len(s) <= Len(t) /\ SubSeq(t, 1, Len(s)) = s

\* the positions of run() in its main phase
InMainPhase == pc \in {"preSetUp", "setUp", "testMethod", "tearDown", "postTearDown"}

\* the step is the reset at the start of run()
RunEntry == pc \in {"idle", "done"} /\ pc' = "initialize"

\* the phases (-1: not in a subtest) of the messages ms
Phases(ms) == {ms[k].at : k \in 1..Len(ms)}

\* the phases of the messages the step appended to ms
NewPhases(ms, ms2) == {ms2[k].at : k \in (Len(ms) + 1)..Len(ms2)}

\* when the step is taken in the main phase no message of a subtest exists
\* after it; when it is taken in the loop for subtest i, what it appends is
\* of subtest i and no message of a later subtest exists yet
InPhaseOrder(ms, ms2) ==
    /\ InMainPhase => Phases(ms2) \subseteq {-1}
    /\ InSubTestLoop =>
          /\ NewPhases(ms, ms2) \subseteq {i}
          /\ \A at \in Phases(ms) : at <= i

\* C36: from the reset at the start of a run() until the next run() begins,
\* the error-message and info-message sequences are append-only: each step
\* only extends them at the end, their earlier content being kept as a
\* prefix; main-phase messages precede all subtest messages, and messages
\* of subtest i precede those of subtest j for i < j.
C36_MessagesAppendOnlyInPhaseOrder ==
    [][ ~RunEntry =>
            /\ IsPrefix(sErrorMessages, sErrorMessages')
            /\ IsPrefix(sInfoMessages, sInfoMessages')
            /\ InPhaseOrder(sErrorMessages, sErrorMessages')
            /\ InPhaseOrder(sInfoMessages, sInfoMessages') ]_vars

\* C36 witness: run() has returned with an error message of the main phase,
\* one of subtest 0 and one of subtest 1, in that order, and an info
\* message; then the owner appended an error message
C36_Witness ==
    /\ pc = "idle"
    /\ Len(sErrorMessages) = 4
    /\ sErrorMessages[1].at = -1 /\ sErrorMessages[1].kind = "failed"
    /\ sErrorMessages[2].at = 0
    /\ sErrorMessages[3].at = 1
    /\ sErrorMessages[4].kind = "outsideAssert"
    /\ sInfoMessages # <<>>

\* a hook is executing, or about to be called, while isSubTestRunning() is
\* true
HookInSubTest == RunExecuting /\ isSubTestRunning

\* the current-subtest index is that of the subtest whose phase is
\* executing: the loop variable, whose callable is the one the phase runs
IdentifiesSubTest ==
    /\ iCurrentSubTest = i
    /\ CurFunc = tSubTests[iCurrentSubTest + 1][1]

\* the way the current-subtest index moves in a step that leaves run() in
\* the loop or leaves the loop: 0 on entry, the next index on every further
\* iteration, unchanged inside an iteration, the last index N - 1 at exit
IndexStep ==
    /\ (~InSubTestLoop /\ InSubTestLoop') => iCurrentSubTest' = 0
    /\ (pc = "subPostTearDown" /\ InSubTestLoop') => iCurrentSubTest' = iCurrentSubTest + 1
    /\ (pc # "subPostTearDown" /\ InSubTestLoop /\ InSubTestLoop') =>
          iCurrentSubTest' = iCurrentSubTest
    /\ (InSubTestLoop /\ ~InSubTestLoop') => iCurrentSubTest = getSubTestCount - 1

\* C37: whenever a hook (preSetUp, setUp, subtest callable, tearDown,
\* postTearDown) executes while isSubTestRunning() is true, the
\* current-subtest index is a valid index of the subtest sequence (index <
\* getSubTestCount()) and identifies the subtest whose phase is executing;
\* the index takes the values 0, 1, ..., N-1 in strictly increasing order
\* during the loop.
C37_CurrentIndexValidAndIncreasing ==
    /\ [](HookInSubTest =>
            /\ InSubTestLoop
            /\ iCurrentSubTest < getSubTestCount
            /\ IdentifiesSubTest)
    /\ [][IndexStep]_vars

\* C37 witness: the callable of the second subtest is executing
C37_Witness ==
    /\ pc = "subTest"
    /\ isSubTestRunning
    /\ getSubTestCount = 2
    /\ iCurrentSubTest = 1
    /\ CurFunc = tSubTests[2][1]

\* the record a closure with sample d leaves for a label that has none:
\* a sample and no counted iteration
SampleOnlyRecord(d) ==
    [BmData EXCEPT !.m_durationsTotal = d, !.m_durationsMin = d, !.m_durationsMax = d]

\* the step closes a timer that was open when clear() removed the records,
\* the record of its label not having been made again since
ClosesAfterClear ==
    /\ StepOp("dtor")
    /\ timers'[StepHash].stale < timers[StepHash].stale
    /\ StepHash \notin DOMAIN getAllData

\* C38: if clear() removes the records while a scoped timer for label L is
\* still open, closing that timer re-creates a record under L's key with
\* iterations 0, an empty label name and the elapsed sample as total,
\* minimum and maximum: the store then holds a record with a sample but no
\* counted iteration.
C38_StaleClosureRecreatesRecord ==
    [][ ClosesAfterClear =>
            /\ StepHash \in DOMAIN getAllData'
            /\ getAllData'[StepHash] = SampleOnlyRecord(lastOp'.d)
            /\ getAllData'[StepHash].m_iterations = 0
            /\ getAllData'[StepHash].m_name = ""
            /\ RecordsKept ]_vars

\* C38 witness: the only record of the store is one that the closure of a
\* timer left behind after clear(), holding the greatest sample and no
\* iteration, while no timer is open any more
C38_Witness ==
    /\ lastOp.op = "dtor"
    /\ \A hash \in Hashes : timers[hash].fresh = 0 /\ timers[hash].stale = 0
    /\ DOMAIN getAllData = {calcHash(lastOp.name)}
    /\ getAllData[calcHash(lastOp.name)] = SampleOnlyRecord(MaxSample)
    /\ hist[calcHash(lastOp.name)].stale = 1

\* the step constructs or closes a scoped timer
TimerStep == StepOp("ctor") \/ StepOp("dtor")

\* the records of the labels other than the one of the step are the same
\* before and after it, and no record of another label appears
OtherRecordsUnchanged ==
    /\ \A hash \in DOMAIN getAllData \ {StepHash} :
          /\ hash \in DOMAIN getAllData'
          /\ getAllData'[hash] = getAllData[hash]
    /\ DOMAIN getAllData' \subseteq DOMAIN getAllData \cup {StepHash}

\* C39: constructing or closing a scoped timer for label L changes only the
\* record of L: for every other label M # L present in the store, its
\* total, minimum, maximum, iterations, name and resolution denominator
\* are unchanged, also when timers of L and M are open at the same time
\* (nested scopes).
C39_TimerTouchesOnlyItsRecord ==
    [][ TimerStep => OtherRecordsUnchanged ]_vars

\* C39 witness: a timer of one label has just been closed with a positive
\* sample while a timer of the other label, constructed earlier and holding
\* a record, is still open
C39_Witness ==
    /\ lastOp.op = "dtor"
    /\ lastOp.d > 0
    /\ \E other \in Hashes \ {calcHash(lastOp.name)} :
          /\ timers[other].fresh > 0
          /\ other \in DOMAIN getAllData
          /\ getAllData[other].m_iterations = 1
          /\ getAllData[other].m_durationsTotal = 0
    /\ hist[calcHash(lastOp.name)].stale = 0
    /\ getAllData[calcHash(lastOp.name)].m_durationsTotal = lastOp.d

(***************************************************************************)
(* The store used by several threads.  The map is a function-local static  *)
(* shared by all threads of the program and nothing in ScopeBenchmarker.h  *)
(* synchronizes its use.  Every thread times the same label once and may   *)
(* call clear() before or after its timer, as the test case it executes    *)
(* does.  m_iterations++ and m_durationsTotal += d are a read and a write  *)
(* through the reference bmData; the steps of different threads            *)
(* interleave between the two.  Concurrent unsynchronized access is        *)
(* undefined; the outcomes modelled are those of the plain loads and       *)
(* stores a build emits.  A write through a reference whose record         *)
(* clear() has erased goes to freed memory: it is lost, or it lands in the *)
(* record made anew for the label when that record reuses the memory.      *)
(***************************************************************************)
\* the label every thread times
ThreadLabel == "a"

ThreadHash == calcHash(ThreadLabel)

\* the durations the timers of the threads measure: a short and a long one
ThreadSamples == {1, MaxSample}

\* the clear() calls the threads have made
RECURSIVE ClearsOf(_)
ClearsOf(ts) ==
    IF ts = {} THEN 0
    ELSE LET t == CHOOSE u \in ts : TRUE
         IN  thread[t].clears + ClearsOf(ts \ {t})

\* the positions of a thread between the read and the write of a field
MidOperation == {"ctorWrite", "dtorWrite"}

\* variant: the constructor stores the counter it read
WriteIterations_NoIncrement(st, hash, reg, name) ==
    [st EXCEPT ![hash].m_iterations = reg,
               ![hash].m_name = name,
               ![hash].m_ratioDenominator = period_den]

\* the constructor from the store of the incremented counter on
WriteIterations(st, hash, reg, name) ==
    [st EXCEPT ![hash].m_iterations = reg + 1,
               ![hash].m_name = name,
               ![hash].m_ratioDenominator = period_den]

\* the destructor from the store of the new total on
WriteTotal(st, hash, reg, thisDurationCount) ==
    [st EXCEPT
        ![hash].m_durationsTotal = reg + thisDurationCount,
        ![hash].m_durationsMin =
            IF thisDurationCount < st[hash].m_durationsMin
            THEN thisDurationCount ELSE st[hash].m_durationsMin,
        ![hash].m_durationsMax =
            IF thisDurationCount > st[hash].m_durationsMax
            THEN thisDurationCount ELSE st[hash].m_durationsMax]

\* the maps a write through bmData can leave behind, written being the map
\* with the write applied to the record of hash
ThroughReference(dangling, st, hash, written) ==
    IF ~dangling THEN {written}
    ELSE IF hash \in DOMAIN st THEN {st, written}
    ELSE {st}

\* auto& bmData = getDataByNameHash(m_nameHash); and the read of
\* bmData.m_iterations++
ThreadCtorRead(t) ==
    /\ thread[t].pc = "idle"
    /\ store' = getDataByNameHash(store, ThreadHash)
    /\ thread' = [thread EXCEPT ![t].pc = "ctorWrite",
                                ![t].reg = store'[ThreadHash].m_iterations,
                                ![t].dangling = FALSE,
                                ![t].counted = TRUE]
    /\ UNCHANGED <<timers, hist, lastOp, phaseOps, opsLeft>>
    /\ UNCHANGED testVars

\* the write of bmData.m_iterations++, then m_name and m_ratioDenominator
ThreadCtorWrite(t) ==
    /\ thread[t].pc = "ctorWrite"
    /\ \E st \in ThroughReference(thread[t].dangling, store, ThreadHash,
                     IF ThreadHash \in DOMAIN store
                     THEN WriteIterations(store, ThreadHash, thread[t].reg, ThreadLabel)
                     ELSE store) :
          store' = st
    /\ thread' = [u \in Threads |->
                    IF u = t THEN [thread[u] EXCEPT !.pc = "open", !.reg = 0, !.dangling = FALSE]
                    ELSE IF thread[u].pc = "ctorWrite"
                    THEN [thread[u] EXCEPT !.raced = TRUE]
                    ELSE thread[u]]
    /\ timers' = [timers EXCEPT ![ThreadHash].fresh = @ + 1]
    /\ UNCHANGED <<hist, lastOp, phaseOps, opsLeft>>
    /\ UNCHANGED testVars

\* the timer goes out of scope, having measured d:
\* auto& bmData = getDataByNameHash(m_nameHash); and the read of
\* bmData.m_durationsTotal += thisDurationCount
ThreadDtorRead(t) ==
    /\ thread[t].pc = "open"
    /\ store' = getDataByNameHash(store, ThreadHash)
    /\ \E d \in ThreadSamples :
          thread' = [thread EXCEPT ![t].pc = "dtorWrite",
                                   ![t].reg = store'[ThreadHash].m_durationsTotal,
                                   ![t].d = d,
                                   ![t].dangling = FALSE,
                                   ![t].sampled = TRUE]
    /\ UNCHANGED <<timers, hist, lastOp, phaseOps, opsLeft>>
    /\ UNCHANGED testVars

\* the write of bmData.m_durationsTotal += thisDurationCount, then the
\* minimum and the maximum
ThreadDtorWrite(t) ==
    /\ thread[t].pc = "dtorWrite"
    /\ \E st \in ThroughReference(thread[t].dangling, store, ThreadHash,
                     IF ThreadHash \in DOMAIN store
                     THEN WriteTotal(store, ThreadHash, thread[t].reg, thread[t].d)
                     ELSE store) :
          store' = st
    /\ thread' = [u \in Threads |->
                    IF u = t THEN [thread[u] EXCEPT !.pc = "done", !.reg = 0, !.dangling = FALSE]
                    ELSE IF thread[u].pc = "dtorWrite"
                    THEN [thread[u] EXCEPT !.raced = TRUE]
                    ELSE thread[u]]
    /\ timers' = IF thread[t].stale
                 THEN [timers EXCEPT ![ThreadHash].stale = @ - 1]
                 ELSE [timers EXCEPT ![ThreadHash].fresh = @ - 1]
    /\ UNCHANGED <<hist, lastOp, phaseOps, opsLeft>>
    /\ UNCHANGED testVars

\* ScopeBenchmarkerDataStore::clear() called by thread t outside its timer
ThreadClear(t) ==
    /\ thread[t].pc \in {"idle", "done"}
    /\ ClearsOf(Threads) < MaxThreadClears
    /\ store' = clear(store)
    /\ thread' = [u \in Threads |->
                    IF u = t
                    THEN [thread[u] EXCEPT !.clears = @ + 1,
                                           !.counted = FALSE,
                                           !.sampled = FALSE]
                    ELSE [thread[u] EXCEPT
                            !.dangling = @ \/ thread[u].pc \in MidOperation,
                            !.raced = @ \/ thread[u].pc \in MidOperation,
                            !.stale = @ \/ thread[u].pc \in {"open", "dtorWrite"},
                            !.counted = FALSE,
                            !.sampled = FALSE]]
    /\ timers' = AllStale(timers)
    /\ UNCHANGED <<hist, lastOp, phaseOps, opsLeft>>
    /\ UNCHANGED testVars

\* a program whose threads have not used the store yet
InitThreads ==
    /\ bTestRan = reset.bTestRan
    /\ sErrorMessages = reset.sErrorMessages
    /\ sInfoMessages = reset.sInfoMessages
    /\ iCurrentSubTest = reset.iCurrentSubTest
    /\ bWeAreInSubTest = reset.bWeAreInSubTest
    /\ nSucceededSubTests = reset.nSucceededSubTests
    /\ tSubTests = <<>>
    /\ nRegistered = 0
    /\ initRegs = <<>>
    /\ pc = "idle"
    /\ i = 0
    /\ bSkipAllSubTests = FALSE
    /\ retVal = FALSE
    /\ runs = 0
    /\ calls = <<>>
    /\ prevRun = <<>>
    /\ StoreInit
    /\ opsLeft = 0
    /\ ConstructedWith(DefaultArgs)

ThreadNext ==
    \/ \E t \in Threads : ThreadCtorRead(t)
    \/ \E t \in Threads : ThreadCtorWrite(t)
    \/ \E t \in Threads : ThreadDtorRead(t)
    \/ \E t \in Threads : ThreadDtorWrite(t)
    \/ \E t \in Threads : ThreadClear(t)

ThreadSpec == InitThreads /\ [][ThreadNext]_vars

\* no thread is between a read and a write
Quiescent == \A t \in Threads : thread[t].pc \notin MidOperation

\* no write or clear() of another thread came between a read and a write
NoThreadRaced == \A t \in Threads : ~thread[t].raced

\* the sum of the samples of the threads ts
RECURSIVE SumOfSamples(_)
SumOfSamples(ts) ==
    IF ts = {} THEN 0
    ELSE LET t == CHOOSE u \in ts : TRUE
         IN  thread[t].d + SumOfSamples(ts \ {t})

\* what the record of the label holds after any execution of the same
\* timers and clear() calls one after the other: the constructions and the
\* samples since the last clear()
SequentialIterations == Cardinality({t \in Threads : thread[t].counted})

SequentialTotal == SumOfSamples({t \in Threads : thread[t].sampled})

RecordTotal == IF ThreadHash \in DOMAIN getAllData
               THEN getAllData[ThreadHash].m_durationsTotal ELSE 0

\* C40: the timing store is safe only under single-threaded use.  As long
\* as no step of another thread comes between the read and the write of a
\* thread's constructor or destructor, and no clear() of another thread
\* either, the record holds the iterations and the total of a sequential
\* execution of the same timers; with such interleaving a state is
\* reachable in which the iterations or the total differ from the result
\* of any sequential execution (a lost update or a lost record).
C40_ExactOnlyWithoutInterleaving ==
    (Quiescent /\ NoThreadRaced) =>
        /\ Iterations(getAllData, ThreadHash) = SequentialIterations
        /\ RecordTotal = SequentialTotal

\* C40 witness: every thread has constructed and closed its timer and no
\* thread has called clear(), and the record counts fewer iterations and a
\* smaller total than the timers that ran: updates were lost
C40_Witness ==
    /\ \A t \in Threads :
          /\ thread[t].pc = "done"
          /\ thread[t].counted
          /\ thread[t].sampled
          /\ thread[t].clears = 0
    /\ Iterations(getAllData, ThreadHash) < SequentialIterations
    /\ RecordTotal < SequentialTotal
====
